---------------------------- MODULE Spec2Model ----------------------------
(***************************************************************************)
(* Model of the Common Crawl news ingestion pipeline of package crowl      *)
(* (src/pkg/crowl/commoncrawl.go): GetNews with its download tasks and     *)
(* parse workers, and parseWarc with its record reader, clean workers,     *)
(* output writer and completion ledger.                                    *)
(*                                                                         *)
(* Three specifications share the variables:                               *)
(*   Spec       GetNews: scheduler, download tasks, job queue, parse       *)
(*              workers; parseWarc runs in coarse steps.                   *)
(*   SpecParse  one parseWarc call in detail: record reader, clean         *)
(*              workers, mutex, compressor, ledger append.                 *)
(*   SpecErr    SpecParse's actions over long streams of a small record    *)
(*              alphabet (the consecutive-error cases).                    *)
(***************************************************************************)
EXTENDS Integers, Sequences, FiniteSets, Bags, TLC

(***************************************************************************)
(* Bounds of the model.                                                    *)
(***************************************************************************)
MaxWorkers == 2
MaxPredowns == 2
MaxPaths == 2
MaxRecords == 2

(***************************************************************************)
(* Program constants.                                                      *)
(***************************************************************************)
\* processedCount%1000 == 0: the flush batch of parseWarc.
FlushEvery == 1000
\* const maxErrors = 10 of the earlier parseWarc; the bound the spec names.
maxErrors == 10

\* Length of the streams of SpecErr: enough records to meet maxErrors + 1
\* consecutive framing errors and one more record after them.
ErrRecords == maxErrors + 2

(***************************************************************************)
(* Bytes and strings.  A string is a sequence of one-character strings;    *)
(* "CR", "LF" and " " stand for \r, \n and the blank.                      *)
(***************************************************************************)
IsSpace(c) == c \in {" ", "CR", "LF"}

RECURSIVE TrimLeft(_)
TrimLeft(s) ==
    IF s # <<>> /\ IsSpace(Head(s)) THEN TrimLeft(Tail(s)) ELSE s

RECURSIVE TrimRight(_)
TrimRight(s) ==
    IF s # <<>> /\ IsSpace(s[Len(s)])
    THEN TrimRight(SubSeq(s, 1, Len(s) - 1))
    ELSE s

\* strings.TrimSpace
TrimSpace(s) == TrimRight(TrimLeft(s))

\* s[i:] of Go for a 0-based i with 0 <= i <= len(s).
SliceFrom(s, i) == SubSeq(s, i + 1, Len(s))

HasPrefixAt(s, pat, i) ==
    /\ i + Len(pat) <= Len(s)
    /\ \A k \in 1..Len(pat) : s[i + k] = pat[k]

\* bytes.Index: the 0-based position of the first occurrence, or -1.
Index(s, pat) ==
    LET hits == {i \in 0..Len(s) : HasPrefixAt(s, pat, i)}
    IN  IF hits = {} THEN -1
        ELSE CHOOSE i \in hits : \A j \in hits : i <= j

CRLFCRLF == <<"CR", "LF", "CR", "LF">>
LFLF == <<"LF", "LF">>


(***************************************************************************)
(* The WARC byte stream.  Bytes are symbols: a header name, a header       *)
(* value, a URL or a digit counts as one byte; Content-Length counts       *)
(* symbols.                                                                *)
(***************************************************************************)
Digits == <<"0", "1", "2", "3", "4", "5", "6", "7", "8", "9">>

DigitVal(c) == (CHOOSE i \in 1..10 : Digits[i] = c) - 1

IsDigit(c) == \E i \in 1..10 : Digits[i] = c

RECURSIVE AtoiDigits(_, _)
AtoiDigits(s, acc) ==
    IF s = <<>> THEN acc ELSE AtoiDigits(Tail(s), 10 * acc + DigitVal(Head(s)))

\* strconv.Atoi: ok is FALSE (and n is 0) when s is no decimal number.
Atoi(s) ==
    LET neg == s # <<>> /\ Head(s) = "-"
        ds  == IF s # <<>> /\ Head(s) \in {"-", "+"} THEN Tail(s) ELSE s
    IN  IF ds # <<>> /\ \A i \in 1..Len(ds) : IsDigit(ds[i])
        THEN [ok |-> TRUE, n |-> IF neg THEN 0 - AtoiDigits(ds, 0) ELSE AtoiDigits(ds, 0)]
        ELSE [ok |-> FALSE, n |-> 0]

\* The decimal digits of a number n >= 0, as fmt.Sprintf("%d") writes them.
RECURSIVE Itoa(_)
Itoa(n) == IF n < 10 THEN <<Digits[n + 1]>> ELSE Itoa(n \div 10) \o <<Digits[(n % 10) + 1]>>

\* strings.TrimRight(line, "\r\n")
RECURSIVE TrimRightCRLF(_)
TrimRightCRLF(s) ==
    IF s # <<>> /\ s[Len(s)] \in {"CR", "LF"}
    THEN TrimRightCRLF(SubSeq(s, 1, Len(s) - 1))
    ELSE s

HasLF(s) == \E i \in 1..Len(s) : s[i] = "LF"

\* The position of the first "\n" of a string that holds one.
RECURSIVE FirstLFFrom(_, _)
FirstLFFrom(s, i) == IF s[i] = "LF" THEN i ELSE FirstLFFrom(s, i + 1)

FirstLF(s) == FirstLFFrom(s, 1)

\* The header read loop of parseWarc: lines up to a blank line.  st is "ok"
\* at a blank line and "end" when ReadString returns an error (end of stream
\* or a read error) first; rest is what follows the block.
RECURSIVE ReadHeaderBlock(_, _)
ReadHeaderBlock(s, lines) ==
    IF ~HasLF(s)
    THEN [st |-> "end", lines |-> lines, rest |-> <<>>, partial |-> (s # <<>> \/ lines # <<>>)]
    ELSE LET i    == FirstLF(s)
             line == TrimRightCRLF(SubSeq(s, 1, i))
             r    == SubSeq(s, i + 1, Len(s))
         IN  IF line = <<>>
             THEN [st |-> "ok", lines |-> lines, rest |-> r, partial |-> FALSE]
             ELSE ReadHeaderBlock(r, Append(lines, line))

\* strings.SplitN(line, ":", 2) and the two TrimSpace calls of ParseHeader;
\* parts is 1 when the line holds no separator.
SplitLine(line) ==
    LET hits == {i \in 1..Len(line) : line[i] = ":"}
    IN  IF hits = {} THEN [parts |-> 1, key |-> <<>>, val |-> <<>>]
        ELSE LET i == CHOOSE i \in hits : \A j \in hits : i <= j
             IN  [parts |-> 2,
                  key   |-> TrimSpace(SubSeq(line, 1, i - 1)),
                  val   |-> TrimSpace(SubSeq(line, i + 1, Len(line)))]

\* header[name] of the map ParseHeader builds: the value of the last line
\* with that key, the empty string when there is none.
HeaderGet(lines, name) ==
    LET hits == {i \in 1..Len(lines) :
                    SplitLine(lines[i]).parts = 2 /\ SplitLine(lines[i]).key = <<name>>}
    IN  IF hits = {} THEN <<>>
        ELSE SplitLine(lines[CHOOSE i \in hits : \A j \in hits : j <= i]).val

ParseHeader(lines) ==
    [type |-> HeaderGet(lines, "WARC-Type"),
     uri  |-> HeaderGet(lines, "WARC-Target-URI"),
     clen |-> HeaderGet(lines, "Content-Length")]

\* Mutant of IsResponse: only "request" records are skipped.
IsResponseMut(header) == header.type # <<"request">>

\* header["WARC-Type"] != "response" is the skip test of parseWarc.
IsResponse(header) == header.type = <<"response">>

\* Mutant of skipBytes: nothing is discarded.
skipBytesMut(s, lenStr) == s

\* skipBytes: io.CopyN discards n bytes, fewer at the end of the stream, and
\* none for n <= 0 or an unparsable length.
skipBytes(s, lenStr) ==
    LET n == Atoi(lenStr).n
    IN  IF n <= 0 THEN s
        ELSE IF n >= Len(s) THEN <<>>
        ELSE SubSeq(s, n + 1, Len(s))

(***************************************************************************)
(* Synthetic records: a header block, a blank line, the body and a         *)
(* trailer (the CRLF CRLF that closes a record of a real archive, or       *)
(* nothing).                                                               *)
(***************************************************************************)
HeaderLine(key, val) == <<key, ":", " ">> \o val \o <<"CR", "LF">>

WarcRecord(type, uri, clen, body, trailer) ==
    HeaderLine("WARC-Type", <<type>>) \o HeaderLine("WARC-Target-URI", <<uri>>)
        \o HeaderLine("Content-Length", clen) \o <<"CR", "LF">> \o body \o trailer

\* HTTP responses: a header stub "h", a separator (or none) and the HTML.
CRLFDoc == <<"h">> \o CRLFCRLF \o <<"H", "i">>
LFDoc == <<"h">> \o LFLF \o <<"H", "i", "s", " ", " ", "t">>
LFShortDoc == <<"h">> \o LFLF \o <<"H">>
NoSepDoc == <<"h", "H", "i">>

RecRequest == WarcRecord("request", "u1", Itoa(1), <<"q">>, CRLFCRLF)
RecInfo == WarcRecord("warcinfo", "u1", Itoa(1), <<"q">>, <<>>)
RecResp1 == WarcRecord("response", "u1", Itoa(Len(CRLFDoc)), CRLFDoc, <<>>)
RecResp2 == WarcRecord("response", "u2", Itoa(Len(LFDoc)), LFDoc, <<>>)
RecNoSep == WarcRecord("response", "u2", Itoa(Len(NoSepDoc)), NoSepDoc, <<>>)
RecLFShort == WarcRecord("response", "u1", Itoa(Len(LFShortDoc)), LFShortDoc, <<>>)
\* Content-Length is no number; the record has no body.
RecBadLen == WarcRecord("response", "u1", <<"x">>, <<>>, <<>>)
\* Content-Length is negative.
RecNegLen == WarcRecord("response", "u2", <<"-", "1">>, <<>>, <<>>)
\* Content-Length promises more bytes than the record holds.
RecLong == WarcRecord("response", "u2", <<"9", "9">>, CRLFDoc, <<>>)

\* Content-Length is smaller than the body: the rest of the body is read as
\* the next header block.
RecShortLen == WarcRecord("response", "u1", Itoa(1), NoSepDoc, <<>>)

WellFormedRecords == {RecRequest, RecInfo, RecResp1, RecResp2, RecNoSep}
AllRecords == WellFormedRecords \cup {RecLFShort, RecBadLen, RecNegLen, RecLong, RecShortLen}
ErrAlphabet == {RecBadLen, RecResp1}

\* What the spec calls a framing error of a response record: a
\* Content-Length that is no number of bytes, or a body shorter than it.
FramingError(header, avail) ==
    \/ ~Atoi(header.clen).ok
    \/ Atoi(header.clen).n < 0
    \/ Atoi(header.clen).n > avail

(***************************************************************************)
(* The clean worker's computation on one job.                              *)
(***************************************************************************)
\* cleanSpaces: every run of white space becomes one blank, then TrimSpace.
RECURSIVE CollapseSpaces(_)
CollapseSpaces(s) ==
    IF s = <<>> THEN <<>>
    ELSE IF IsSpace(Head(s))
         THEN IF Tail(s) # <<>> /\ IsSpace(Head(Tail(s)))
              THEN CollapseSpaces(Tail(s))
              ELSE <<" ">> \o CollapseSpaces(Tail(s))
         ELSE <<Head(s)>> \o CollapseSpaces(Tail(s))

cleanSpaces(html) == TrimSpace(CollapseSpaces(html))

(***************************************************************************)
(* CleanHTML.  A document is a sequence of tokens, all strings: "<div" is  *)
(* the start of an open tag, followed by one token per attribute and ">";  *)
(* "</div>" is a close tag; every other token is one byte of text.         *)
(* The names the rules look into (attribute keys, class names, keywords)   *)
(* are spelled as sequences of characters.                                 *)
(***************************************************************************)
OpenTokens == {"<html", "<head", "<body", "<div", "<p", "<a", "<nav"}
CloseTokens == {"</html>", "</head>", "</body>", "</div>", "</p>", "</a>", "</nav>"}

\* goquery.NodeName: the parser's tag name (lower case), spelled.
NodeName(open) ==
    CASE open = "<html" -> <<"h", "t", "m", "l">> [] open = "<head" -> <<"h", "e", "a", "d">>
      [] open = "<body" -> <<"b", "o", "d", "y">> [] open = "<div" -> <<"d", "i", "v">>
      [] open = "<p" -> <<"p">> [] open = "<a" -> <<"a">>
      [] open = "<nav" -> <<"n", "a", "v">>

CloseOf(open) ==
    CASE open = "<html" -> "</html>" [] open = "<head" -> "</head>"
      [] open = "<body" -> "</body>" [] open = "<div" -> "</div>"
      [] open = "<p" -> "</p>" [] open = "<a" -> "</a>" [] open = "<nav" -> "</nav>"

UpperCase == <<"A", "B", "C", "D", "E", "F", "G", "H", "I", "J", "K", "L", "M",
               "N", "O", "P", "Q", "R", "S", "T", "U", "V", "W", "X", "Y", "Z">>
LowerCase == <<"a", "b", "c", "d", "e", "f", "g", "h", "i", "j", "k", "l", "m",
               "n", "o", "p", "q", "r", "s", "t", "u", "v", "w", "x", "y", "z">>

\* strings.ToLower on a spelled name.
ToLower(s) ==
    [i \in 1..Len(s) |->
        IF \E k \in 1..26 : UpperCase[k] = s[i]
        THEN LowerCase[CHOOSE k \in 1..26 : UpperCase[k] = s[i]]
        ELSE s[i]]

\* strings.HasPrefix, strings.HasSuffix, strings.Contains
HasPrefix(s, pre) == HasPrefixAt(s, pre, 0)
HasSuffix(s, suf) == Len(suf) <= Len(s) /\ HasPrefixAt(s, suf, Len(s) - Len(suf))
Contains(s, sub) == \E i \in 0..Len(s) : HasPrefixAt(s, sub, i)

\* Mutant of containsAnyKeyword: no keyword matches.
containsAnyKeywordMut(className, keywords) == FALSE

\* containsAnyKeyword: "^x" asks for the prefix x, "x$" for the suffix x,
\* anything else for the substring.
containsAnyKeyword(className, keywords) ==
    \E k \in 1..Len(keywords) :
       LET keyword == keywords[k]
       IN  IF HasPrefix(keyword, <<"^">>)
           THEN HasPrefix(className, Tail(keyword))
           ELSE IF HasSuffix(keyword, <<"$">>)
           THEN HasSuffix(className, SubSeq(keyword, 1, Len(keyword) - 1))
           ELSE Contains(className, keyword)

\* The attribute tokens of the documents: the key the parser stores (lower
\* case) and, for a class attribute, its value.  "" is html.Attribute{}.
AttrTokens ==
    {"href", "title", "onclick", "data-x", "itemprop", "area-label",
     "class=ad", "class=Sidebar", "class=x top-ad", "class=lead"}

AttrKey(tok) ==
    CASE tok = "" -> <<>>
      [] tok = "href" -> <<"h", "r", "e", "f">>
      [] tok = "title" -> <<"t", "i", "t", "l", "e">>
      [] tok = "onclick" -> <<"o", "n", "c", "l", "i", "c", "k">>
      [] tok = "data-x" -> <<"d", "a", "t", "a", "-", "x">>
      [] tok = "itemprop" -> <<"i", "t", "e", "m", "p", "r", "o", "p">>
      [] tok = "area-label" -> <<"a", "r", "e", "a", "-", "l", "a", "b", "e", "l">>
      [] OTHER -> <<"c", "l", "a", "s", "s">>

\* strings.Fields of the value of a class attribute.
ClassFields(tok) ==
    CASE tok = "class=ad" -> << <<"a", "d">> >>
      [] tok = "class=Sidebar" -> << <<"S", "i", "d", "e", "b", "a", "r">> >>
      [] tok = "class=x top-ad" -> << <<"x">>, <<"t", "o", "p", "-", "a", "d">> >>
      [] tok = "class=lead" -> << <<"l", "e", "a", "d">> >>
      [] OTHER -> <<>>

\* The number of bytes a token stands for: a text token is one byte, an
\* open tag is "<" and its name, a close tag "</", the name and ">", an
\* attribute a blank, the key, '="', the value and '"'.
ValueBytes(tok) ==
    CASE tok = "class=ad" -> 2 [] tok = "class=Sidebar" -> 7
      [] tok = "class=x top-ad" -> 8 [] tok = "class=lead" -> 4
      [] OTHER -> 1

SymBytes(tok) ==
    IF tok \in OpenTokens THEN 1 + Len(NodeName(tok))
    ELSE IF tok \in CloseTokens
         THEN 3 + Len(NodeName(CHOOSE o \in OpenTokens : CloseOf(o) = tok))
    ELSE IF tok \in AttrTokens THEN Len(AttrKey(tok)) + 4 + ValueBytes(tok)
    ELSE IF tok \in {"<!--", "-->"} THEN IF tok = "-->" THEN 3 ELSE 4
    ELSE 1

\* len(content)
RECURSIVE ByteLen(_)
ByteLen(s) == IF s = <<>> THEN 0 ELSE SymBytes(Head(s)) + ByteLen(Tail(s))

\* RemoveSelectors of the configuration, names spelled.
NoSelectors == [Tags |-> {}, Classes |-> {}, ClassKeywords |-> <<>>, Attributes |-> {}]

\* Mutant of RemoveByTag: no tag is removed.
RemoveByTagMut(sel, open) == FALSE

\* Lines 456-470: the tag is in the tag-removal set.
RemoveByTag(sel, open) ==
    \E tag \in sel.Tags : ToLower(tag) = ToLower(NodeName(open))

\* Lines 472-483: an element other than body with a class attribute one of
\* whose fields, in lower case, is a configured class (in lower case) or
\* matches a keyword (as configured).
RemoveByClass(sel, open, attrs) ==
    /\ NodeName(open) # <<"b", "o", "d", "y">>
    /\ \E i \in 1..Len(attrs) :
          \E k \in 1..Len(ClassFields(attrs[i])) :
             LET lowerClass == ToLower(ClassFields(attrs[i])[k])
             IN  \/ \E class \in sel.Classes : ToLower(class) = lowerClass
                 \/ containsAnyKeyword(lowerClass, sel.ClassKeywords)

\* Lines 488-505: the attribute key is to be removed.
RemovesAttr(sel, key) ==
    LET keyLower == ToLower(key)
    IN  \/ HasPrefix(keyLower, <<"d", "a", "t", "a", "-">>)
        \/ HasPrefix(keyLower, <<"a", "r", "e", "a", "-">>)
        \/ HasPrefix(keyLower, <<"o", "n">>)
        \/ HasPrefix(keyLower, <<"i", "t", "e", "m">>)
        \/ \E removeAttr \in sel.Attributes : keyLower = ToLower(removeAttr)

\* goquery's removeAttr on a node whose Attr slice is arr[1..n]: the
\* attribute found takes the value of the last one, the last slot becomes
\* html.Attribute{} and the slice loses its last element.
removeAttr(arr, n, tok) ==
    LET hits == {j \in 1..n : arr[j] = tok}
    IN  IF hits = {} THEN [arr |-> arr, n |-> n]
        ELSE LET j == CHOOSE j \in hits : \A h \in hits : j <= h
             IN  [arr |-> [[arr EXCEPT ![j] = arr[n]] EXCEPT ![n] = ""], n |-> n - 1]

\* Lines 486-510: 'for _, attr := range attrs' walks the slice as it was
\* when the loop began, over the array that RemoveAttr rearranges.
RECURSIVE AttrLoop(_, _, _, _)
AttrLoop(sel, arr, n, i) ==
    IF i > Len(arr) THEN SubSeq(arr, 1, n)
    ELSE IF RemovesAttr(sel, AttrKey(arr[i]))
         THEN LET r == removeAttr(arr, n, arr[i]) IN AttrLoop(sel, r.arr, r.n, i + 1)
         ELSE AttrLoop(sel, arr, n, i + 1)

StripAttrs(sel, attrs) == AttrLoop(sel, attrs, Len(attrs), 1)

\* The position of the ">" that ends the open tag at the head of s.
RECURSIVE FirstGTFrom(_, _)
FirstGTFrom(s, i) == IF i > Len(s) \/ s[i] = ">" THEN i ELSE FirstGTFrom(s, i + 1)

FirstGT(s) == FirstGTFrom(s, 1)

\* The position of the close tag of the element that opens at the head of
\* s; the end of s when it is never closed.
RECURSIVE MatchFrom(_, _, _)
MatchFrom(s, i, depth) ==
    IF i >= Len(s) THEN Len(s)
    ELSE IF s[i] \in OpenTokens THEN MatchFrom(s, i + 1, depth + 1)
    ELSE IF s[i] \in CloseTokens
         THEN IF depth = 1 THEN i ELSE MatchFrom(s, i + 1, depth - 1)
    ELSE MatchFrom(s, i + 1, depth)

MatchClose(s) == MatchFrom(s, 2, 1)

\* Lines 463-511: doc.Find("*").Each over the elements in document order.
\* A removed element leaves with its subtree (what the callback then does
\* to the detached descendants does not show in the document); a kept
\* element has its attributes stripped.
RECURSIVE Walk(_, _)
Walk(sel, s) ==
    IF s = <<>> THEN <<>>
    ELSE IF Head(s) \in OpenTokens
         THEN LET gt    == FirstGT(s)
                  attrs == SubSeq(s, 2, gt - 1)
              IN  IF RemoveByTag(sel, Head(s)) \/ RemoveByClass(sel, Head(s), attrs)
                  THEN Walk(sel, SubSeq(s, MatchClose(s) + 1, Len(s)))
                  ELSE <<Head(s)>> \o StripAttrs(sel, attrs) \o <<">">>
                          \o Walk(sel, SubSeq(s, gt + 1, Len(s)))
         ELSE <<Head(s)>> \o Walk(sel, Tail(s))

\* Line 442, reComments: every "<!--" up to the next "-->" is deleted.
RECURSIVE RemoveComments(_)
RemoveComments(s) ==
    LET opens  == {i \in 1..Len(s) : s[i] = "<!--"}
        i      == CHOOSE i \in opens : \A j \in opens : i <= j
        closes == {j \in 1..Len(s) : s[j] = "-->" /\ j > i}
        j      == CHOOSE j \in closes : \A k \in closes : j <= k
    IN  IF opens = {} THEN s
        ELSE IF closes = {} THEN s
        ELSE SubSeq(s, 1, i - 1) \o RemoveComments(SubSeq(s, j + 1, Len(s)))

\* s without the given last token, when it ends in it.
DropLast(s, tok) ==
    IF s # <<>> /\ s[Len(s)] = tok THEN SubSeq(s, 1, Len(s) - 1) ELSE s

\* Mutant of ParseDoc: the markup is kept as given, nothing is added.
ParseDocMut(raw) == raw

\* Line 445, the HTML parser: the document always has its html, head and
\* body elements, given or not; white space before the first content is
\* dropped.
ParseDoc(raw) ==
    LET hasHtml   == raw # <<>> /\ Head(raw) = "<html"
        htmlAttrs == IF hasHtml THEN SubSeq(raw, 2, FirstGT(raw) - 1) ELSE <<>>
        s1        == IF hasHtml
                     THEN DropLast(SubSeq(raw, FirstGT(raw) + 1, Len(raw)), "</html>")
                     ELSE raw
        hasHead   == s1 # <<>> /\ Head(s1) = "<head"
        s2        == IF hasHead THEN SubSeq(s1, MatchClose(s1) + 1, Len(s1)) ELSE s1
        hasBody   == s2 # <<>> /\ Head(s2) = "<body"
        bodyAttrs == IF hasBody THEN SubSeq(s2, 2, FirstGT(s2) - 1) ELSE <<>>
        s3        == IF hasBody
                     THEN DropLast(SubSeq(s2, FirstGT(s2) + 1, Len(s2)), "</body>")
                     ELSE IF hasHtml \/ hasHead THEN s2 ELSE TrimLeft(s2)
    IN  <<"<html">> \o htmlAttrs \o <<">", "<head", ">", "</head>", "<body">>
           \o bodyAttrs \o <<">">> \o s3 \o <<"</body>", "</html>">>

\* CleanHTML: comments out, parse, the removal rules, doc.Html() (the whole
\* document is serialized), cleanSpaces.
CleanHTML(c, rawHTML) ==
    cleanSpaces(Walk(c.RemoveSelectors, ParseDoc(RemoveComments(rawHTML))))

\* The header/body boundary: "\r\n\r\n" first, then "\n\n"; -1 when neither
\* is there.
HeaderEnd(content) ==
    IF Index(content, CRLFCRLF) # -1 THEN Index(content, CRLFCRLF)
    ELSE Index(content, LFLF)

\* job.Content[headerEnd+4:] panics when headerEnd+4 exceeds the length.
SlicePanics(content) == HeaderEnd(content) + 4 > Len(content)

HtmlContent(content) == SliceFrom(content, HeaderEnd(content) + 4)

(***************************************************************************)
(* Archive keys (output file names) and the completion ledger.             *)
(***************************************************************************)
\* Names of output files; a listing line may end in a blank.
Keys == {<<"a">>, <<"a", " ">>}

\* What an interrupted earlier run left in an output file.
StaleChunk == [part |-> 0, url |-> <<"old">>, content |-> <<>>]

\* Ledger files the run may start with.
InitLedgers == {<<>>} \cup {<<k>> : k \in Keys}

\* isCompletedWarcFile: some line, after TrimSpace, equals the name.
isCompletedWarcFile(file, warcFileName) ==
    \E i \in 1..Len(file) : TrimSpace(file[i]) = warcFileName

\* isCompletedWarc: the in-memory set first, then the file.
isCompletedWarc(set, file, warcFileName) ==
    warcFileName \in set \/ isCompletedWarcFile(file, warcFileName)

\* completedSet after isCompletedWarc: a name found in the file is stored.
completedSetAfter(set, file, warcFileName) ==
    IF warcFileName \notin set /\ isCompletedWarcFile(file, warcFileName)
    THEN set \cup {warcFileName}
    ELSE set

\* logCompletedWarc: the name and a newline are appended to the file.
logCompletedWarc(file, warcFileName) == Append(file, warcFileName)

\* NewCommonCrawl: Predowns defaults to Workers / 4.
NewCommonCrawl(workers, predowns) ==
    [Workers |-> workers, Predowns |-> IF predowns = 0 THEN workers \div 4 ELSE predowns,
     RemoveSelectors |-> NoSelectors]

(***************************************************************************)
(* State.                                                                  *)
(***************************************************************************)
VARIABLES
    cc,             \* the configuration: Workers, Predowns
    crashed,        \* the process panicked
    ledgerFile,     \* the lines of the "completed" file
    completedSet,   \* the process-wide sync.Map of completed names
    outExists,      \* per output name: the .wrc.gz file exists
    outFile,        \* per output name: the chunks that reached the file
    \* ---- one parseWarc call (SpecParse, SpecErr)
    pkey,           \* saveFileName
    rpc,            \* where the reader (the body of parseWarc) is
    pret,           \* what parseWarc returned
    alphabet,       \* the records the archive may hold
    limit,          \* how many records the archive may hold
    nfed,           \* records delivered by the source so far
    rest,           \* decompressed bytes delivered and not yet read
    srcEnd,         \* "more", or how the source ends: "eof", "err"
    rjob,           \* the job the reader is sending
    jobChan,        \* the per-archive job queue
    jobClosed,      \* close(jobChan) happened
    wpc,            \* per clean worker: where it is
    wjob,           \* per clean worker: the entry it is writing
    mu,             \* the mutex: 0 when free, else the holder
    gwBuf,          \* chunks accepted by the gzip writer, not yet in the file
    sinkErr,        \* the gzip writer has failed (its error is sticky)
    processedCount,
    \* ---- history of the parseWarc call
    marked,         \* this call appended its name to the ledger
    endKind,        \* how the header loop ended
    errRun,         \* consecutive response records with a framing error
    boundHit,       \* errRun has exceeded maxErrors
    fedResp,        \* response records delivered by the source
    fedWell,        \* every record delivered was well formed
    emitted,        \* jobs put on jobChan
    expected,       \* bag of entries due: one per job with a separator
    \* ---- GetNews (Spec)
    paths,          \* the listing
    mpc,            \* where GetNews is
    mi,             \* index of the path being scheduled
    downloadSem,    \* permits taken
    taskChan,       \* the parse job queue
    taskClosed,     \* close(taskChan) happened
    dpc,            \* per path index: where its download task is
    tempFile,       \* per name: the local temp file: "none", "partial", "complete"
    ppc,            \* per parse worker: where it is
    ptask,          \* per parse worker: its task
    closer,         \* the goroutine that closes taskChan
    ledger0,        \* history: the ledger file when the run started
    hist,           \* history: the events of the run, as <<event, path index>>
    \* ---- one function applied to one input (SpecWRC, SpecClean)
    fpc,            \* where the application is
    fin,            \* the input
    fbuf,           \* what was written so far
    fout            \* what was read back, or computed

confVars == <<cc, crashed>>
ledgerVars == <<ledgerFile, completedSet>>
outVars == <<outExists, outFile>>
srcVars == <<alphabet, limit, nfed, rest, srcEnd>>
readerVars == <<pkey, rpc, pret, rjob>>
chanVars == <<jobChan, jobClosed>>
workerVars == <<wpc, wjob, mu, gwBuf, sinkErr, processedCount>>
ghostVars == <<marked, endKind, errRun, boundHit, fedResp, fedWell, emitted, expected>>
parseVars == <<srcVars, readerVars, chanVars, workerVars, ghostVars>>
getNewsVars == <<paths, mpc, mi, downloadSem, taskChan, taskClosed, dpc, tempFile,
                 ppc, ptask, closer, ledger0, hist>>
fnVars == <<fpc, fin, fbuf, fout>>
vars == <<confVars, ledgerVars, outVars, parseVars, getNewsVars, fnVars>>

CleanWorkers == 1..MaxWorkers

\* A parseJob; type records the WARC-Type of the record it was made from.
NoJob == [URL |-> <<>>, Content |-> <<>>, type |-> <<>>]

(***************************************************************************)
(* parseWarc: the reader.                                                  *)
(***************************************************************************)
\* The read of the next record cannot finish with the bytes delivered so
\* far: the header block is not closed, or the body (or the skip) reaches
\* past them.
NeedMore(s) ==
    LET h == ReadHeaderBlock(s, <<>>)
    IN  \/ h.st = "end"
        \/ Atoi(ParseHeader(h.lines).clen).n > Len(h.rest)

\* The type of a record as the source delivers it.
RecType(r) == ParseHeader(ReadHeaderBlock(r, <<>>).lines).type

\* The source (gzip over the temp file) delivers the next record, ends, or
\* fails; it is asked only when the reader waits for bytes.
Feed ==
    /\ ~crashed /\ rpc = "read" /\ srcEnd = "more" /\ NeedMore(rest)
    /\ \E c \in ({"rec"} \X alphabet) \cup ({"end"} \X {<<"eof">>, <<"err">>}) :
          IF c[1] = "rec"
          THEN /\ nfed < limit
               /\ rest' = rest \o c[2]
               /\ nfed' = nfed + 1
               /\ fedResp' = IF RecType(c[2]) = <<"response">> THEN fedResp + 1 ELSE fedResp
               /\ fedWell' = (fedWell /\ c[2] \in WellFormedRecords)
               /\ UNCHANGED srcEnd
          ELSE /\ srcEnd' = c[2][1]
               /\ UNCHANGED <<rest, nfed, fedResp, fedWell>>
    /\ UNCHANGED <<confVars, fnVars, ledgerVars, outVars, alphabet, limit, readerVars, chanVars,
                   workerVars, marked, endKind, errRun, boundHit, emitted, expected,
                   getNewsVars>>

\* Lines 293-303: the ledger lookup at the head of parseWarc.
P_Check ==
    /\ ~crashed /\ rpc = "check"
    /\ \E ioerr \in BOOLEAN :
          IF ioerr
          THEN /\ rpc' = "returned" /\ pret' = "err"
               /\ UNCHANGED completedSet
          ELSE /\ completedSet' = completedSetAfter(completedSet, ledgerFile, pkey)
               /\ IF isCompletedWarc(completedSet, ledgerFile, pkey)
                  THEN rpc' = "returned" /\ pret' = "nil"
                  ELSE rpc' = "open" /\ UNCHANGED pret
    /\ UNCHANGED <<confVars, fnVars, ledgerFile, outVars, srcVars, pkey, rjob, chanVars, workerVars,
                   ghostVars, getNewsVars>>

\* Mutant of RemoveStale: the output of an earlier run is left in place.
RemoveStaleMut(files, key) == files

\* Lines 306-310: os.Remove(savePath) of an output file that exists; the
\* file created at line 330 is empty.
RemoveStale(files, key) == [files EXCEPT ![key] = <<>>]

\* Lines 305-383: the stale output is removed, the archive opened, the
\* output created and the clean workers started.
P_Open ==
    /\ ~crashed /\ rpc = "open"
    /\ \E res \in {"ok", "removefail", "openfail"} :
          CASE res = "removefail" ->
                  /\ outExists[pkey]
                  /\ rpc' = "returned" /\ pret' = "err"
                  /\ UNCHANGED <<outVars, wpc>>
            [] res = "openfail" ->
                  /\ outExists' = [outExists EXCEPT ![pkey] = FALSE]
                  /\ outFile' = RemoveStale(outFile, pkey)
                  /\ rpc' = "returned" /\ pret' = "err"
                  /\ UNCHANGED wpc
            [] OTHER ->
                  /\ outExists' = [outExists EXCEPT ![pkey] = TRUE]
                  /\ outFile' = RemoveStale(outFile, pkey)
                  /\ wpc' = [w \in CleanWorkers |-> IF w <= cc.Workers THEN "idle" ELSE "off"]
                  /\ rpc' = "read"
                  /\ UNCHANGED pret
    /\ UNCHANGED <<confVars, fnVars, ledgerVars, srcVars, pkey, rjob, chanVars, wjob, mu, gwBuf,
                   sinkErr, processedCount, ghostVars, getNewsVars>>

\* Lines 385-417: one turn of the read loop, up to the send on jobChan.
P_Read ==
    /\ ~crashed /\ rpc = "read"
    /\ srcEnd # "more" \/ ~NeedMore(rest)
    /\ LET h      == ReadHeaderBlock(rest, <<>>)
           header == ParseHeader(h.lines)
           n      == Atoi(header.clen).n
           bad    == FramingError(header, Len(h.rest))
       IN  CASE h.st = "end" ->
                  /\ rpc' = "finish"
                  /\ rest' = <<>>
                  /\ endKind' = IF srcEnd = "err" THEN "error"
                                ELSE IF h.partial THEN "eof-in-header" ELSE "eof"
                  /\ UNCHANGED <<crashed, rjob, errRun, boundHit>>
             [] h.st = "ok" /\ ~IsResponse(header) ->
                  /\ rest' = skipBytes(h.rest, header.clen)
                  /\ UNCHANGED <<crashed, rpc, rjob, endKind, errRun, boundHit>>
             [] h.st = "ok" /\ IsResponse(header) /\ n < 0 ->
                  \* make([]byte, contentLength) panics
                  /\ crashed' = TRUE
                  /\ UNCHANGED <<rpc, rest, rjob, endKind, errRun, boundHit>>
             [] h.st = "ok" /\ IsResponse(header) /\ n > Len(h.rest) ->
                  \* io.ReadFull fails: continue
                  /\ rest' = <<>>
                  /\ errRun' = errRun + 1
                  /\ boundHit' = (boundHit \/ errRun + 1 > maxErrors)
                  /\ UNCHANGED <<crashed, rpc, rjob, endKind>>
             [] OTHER ->
                  /\ rjob' = [URL |-> header.uri, Content |-> SubSeq(h.rest, 1, n),
                            type |-> header.type]
                  /\ rest' = SubSeq(h.rest, n + 1, Len(h.rest))
                  /\ rpc' = "send"
                  /\ errRun' = IF bad THEN errRun + 1 ELSE 0
                  /\ boundHit' = (boundHit \/ (bad /\ errRun + 1 > maxErrors))
                  /\ UNCHANGED <<crashed, endKind>>
    /\ UNCHANGED <<cc, fnVars, ledgerVars, outVars, alphabet, limit, nfed, srcEnd, pkey, pret,
                   chanVars, workerVars, marked, fedResp, fedWell, emitted, expected,
                   getNewsVars>>

\* Capacity of jobChan: make(chan parseJob, cc.Workers*2).
JobChanCap == cc.Workers * 2

\* Line 416: jobChan <- parseJob{...} blocks while the queue is full.
P_Send ==
    /\ ~crashed /\ rpc = "send"
    /\ Len(jobChan) < JobChanCap
    /\ jobChan' = Append(jobChan, rjob)
    /\ rjob' = NoJob
    /\ rpc' = "read"
    /\ emitted' = emitted + 1
    /\ expected' = IF HeaderEnd(rjob.Content) # -1 /\ ~SlicePanics(rjob.Content)
                   THEN expected (+) SetToBag({[url |-> rjob.URL,
                                   content |-> CleanHTML(cc, HtmlContent(rjob.Content))]})
                   ELSE expected
    /\ UNCHANGED <<confVars, fnVars, ledgerVars, outVars, srcVars, pkey, pret, jobClosed, workerVars,
                   marked, endKind, errRun, boundHit, fedResp, fedWell, getNewsVars>>

\* Line 420: FINISH: close(jobChan).
P_Finish ==
    /\ ~crashed /\ rpc = "finish"
    /\ jobClosed' = TRUE
    /\ rpc' = "wait"
    /\ UNCHANGED <<confVars, fnVars, ledgerVars, outVars, srcVars, pkey, pret, rjob, jobChan,
                   workerVars, ghostVars, getNewsVars>>

\* Mutant of AllWorkersDone: the wait for the clean workers is left out.
AllWorkersDoneMut == TRUE

\* wg.Wait() returns when every clean worker has called wg.Done().
AllWorkersDone == \A w \in CleanWorkers : wpc[w] \in {"off", "done"}

\* Line 421: wg.Wait().
P_Wait ==
    /\ ~crashed /\ rpc = "wait"
    /\ AllWorkersDone
    /\ rpc' = "log"
    /\ UNCHANGED <<confVars, fnVars, ledgerVars, outVars, srcVars, pkey, pret, rjob, chanVars,
                   workerVars, ghostVars, getNewsVars>>

\* Line 424: return logCompletedWarc(logPath, saveFileName); the append may
\* fail.
P_Log ==
    /\ ~crashed /\ rpc = "log"
    /\ \E ok \in BOOLEAN :
          IF ok
          THEN /\ ledgerFile' = logCompletedWarc(ledgerFile, pkey)
               /\ marked' = TRUE
               /\ pret' = "nil"
          ELSE /\ pret' = "err"
               /\ UNCHANGED <<ledgerFile, marked>>
    /\ rpc' = "close"
    /\ UNCHANGED <<confVars, fnVars, completedSet, outVars, srcVars, pkey, rjob, chanVars,
                   workerVars, endKind, errRun, boundHit, fedResp, fedWell, emitted,
                   expected, getNewsVars>>

\* Lines 337-344: the deferred gw.Close() and f.Close() run on return; the
\* buffered chunks reach the file unless the writer has failed.
P_Close ==
    /\ ~crashed /\ rpc = "close"
    /\ outFile' = [outFile EXCEPT ![pkey] = IF sinkErr THEN @ ELSE @ \o gwBuf]
    /\ gwBuf' = <<>>
    /\ rpc' = "returned"
    /\ UNCHANGED <<confVars, fnVars, ledgerVars, outExists, srcVars, pkey, pret, rjob, chanVars,
                   wpc, wjob, mu, sinkErr, processedCount, ghostVars, getNewsVars>>

(***************************************************************************)
(* parseWarc: the clean workers (lines 352-383).                           *)
(***************************************************************************)
\* Mutant of MuFree: the lock is not taken.
MuFreeMut == TRUE

\* mu.Lock() proceeds only when the mutex is free.
MuFree == mu = 0

\* Idle clean workers are indistinguishable: which of them receives the
\* next job (or sees the queue closed) changes nothing but names, so the
\* model lets the one with the least index do it.
LeastIdle(w) == wpc[w] = "idle" /\ \A v \in 1..(w - 1) : wpc[v] # "idle"

\* Mutant of NoSeparator: the test for a missing separator is left out.
NoSeparatorMut(content) == FALSE

\* Lines 357-363: neither "\r\n\r\n" nor "\n\n" is in the body: continue.
NoSeparator(content) == HeaderEnd(content) = -1

\* Lines 356-369: a job is received and cleaned; a job without separator
\* is dropped; the slice may panic.
W_Recv(w) ==
    /\ ~crashed /\ LeastIdle(w)
    /\ jobChan # <<>>
    /\ jobChan' = Tail(jobChan)
    /\ LET job == Head(jobChan)
       IN  IF NoSeparator(job.Content)
           THEN UNCHANGED <<crashed, wpc, wjob>>
           ELSE IF SlicePanics(job.Content)
           THEN crashed' = TRUE /\ UNCHANGED <<wpc, wjob>>
           ELSE /\ wjob' = [wjob EXCEPT ![w] =
                               [url |-> job.URL, content |-> CleanHTML(cc, HtmlContent(job.Content))]]
                /\ wpc' = [wpc EXCEPT ![w] = "lock"]
                /\ UNCHANGED crashed
    /\ UNCHANGED <<cc, fnVars, ledgerVars, outVars, srcVars, readerVars, jobClosed, mu, gwBuf,
                   sinkErr, processedCount, ghostVars, getNewsVars>>

\* Mutant of RangeEnds: a worker leaves as soon as it finds the queue empty.
RangeEndsMut == jobChan = <<>>

\* for job := range jobChan ends when the queue is closed and drained.
RangeEnds == jobChan = <<>> /\ jobClosed

\* Line 356: the worker leaves its loop and calls wg.Done().
W_Exit(w) ==
    /\ ~crashed /\ LeastIdle(w)
    /\ RangeEnds
    /\ wpc' = [wpc EXCEPT ![w] = "done"]
    /\ UNCHANGED <<confVars, fnVars, ledgerVars, outVars, srcVars, readerVars, chanVars, wjob, mu,
                   gwBuf, sinkErr, processedCount, ghostVars, getNewsVars>>

\* Line 371: mu.Lock().
W_Lock(w) ==
    /\ ~crashed /\ wpc[w] = "lock"
    /\ MuFree
    /\ mu' = w
    /\ wpc' = [wpc EXCEPT ![w] = "write"]
    /\ UNCHANGED <<confVars, fnVars, ledgerVars, outVars, srcVars, readerVars, chanVars, wjob,
                   gwBuf, sinkErr, processedCount, ghostVars, getNewsVars>>

\* Line 372, writeWRC: the compressor takes the first part of the entry
\* (url and length lines), or rejects the write; a writer that has failed
\* rejects every later write.
W_Write(w) ==
    /\ ~crashed /\ wpc[w] = "write"
    /\ \E ok \in BOOLEAN :
          IF ok /\ ~sinkErr
          THEN /\ gwBuf' = Append(gwBuf, [part |-> 1, url |-> wjob[w].url,
                                           content |-> wjob[w].content])
               /\ wpc' = [wpc EXCEPT ![w] = "write2"]
               /\ UNCHANGED sinkErr
          ELSE /\ sinkErr' = TRUE
               /\ wpc' = [wpc EXCEPT ![w] = "count"]
               /\ UNCHANGED gwBuf
    /\ UNCHANGED <<confVars, fnVars, ledgerVars, outVars, srcVars, readerVars, chanVars, wjob, mu,
                   processedCount, ghostVars, getNewsVars>>

\* writeWRC, continued: the content and the closing blank line.
W_Write2(w) ==
    /\ ~crashed /\ wpc[w] = "write2"
    /\ gwBuf' = Append(gwBuf, [part |-> 2, url |-> wjob[w].url,
                                content |-> wjob[w].content])
    /\ wpc' = [wpc EXCEPT ![w] = "count"]
    /\ UNCHANGED <<confVars, fnVars, ledgerVars, outVars, srcVars, readerVars, chanVars, wjob, mu,
                   sinkErr, processedCount, ghostVars, getNewsVars>>

\* Lines 375-380: the count, the flush every FlushEvery entries, mu.Unlock().
W_Unlock(w) ==
    /\ ~crashed /\ wpc[w] = "count"
    /\ processedCount' = processedCount + 1
    /\ IF (processedCount + 1) % FlushEvery = 0 /\ ~sinkErr
       THEN /\ outFile' = [outFile EXCEPT ![pkey] = @ \o gwBuf]
            /\ gwBuf' = <<>>
       ELSE UNCHANGED <<outFile, gwBuf>>
    /\ mu' = IF mu = w THEN 0 ELSE mu
    /\ wpc' = [wpc EXCEPT ![w] = "idle"]
    /\ UNCHANGED <<confVars, fnVars, ledgerVars, outExists, srcVars, readerVars, chanVars, wjob,
                   sinkErr, ghostVars, getNewsVars>>

(***************************************************************************)
(* One parseWarc call.                                                     *)
(***************************************************************************)
\* No function is being applied.
FnIdle == fpc = "idle" /\ fin = <<>> /\ fbuf = <<>> /\ fout = <<>>

GetNewsIdle ==
    /\ paths = <<>> /\ mpc = "idle" /\ mi = 0 /\ downloadSem = 0
    /\ taskChan = <<>> /\ taskClosed = FALSE
    /\ dpc = <<>> /\ tempFile = [k \in Keys |-> "none"]
    /\ ppc = <<>> /\ ptask = <<>> /\ closer = "none"
    /\ ledger0 = <<>> /\ hist = {}

InitParseCall ==
    /\ crashed = FALSE
    /\ completedSet = {}
    /\ rpc = "check" /\ pret = "" /\ rjob = NoJob
    /\ nfed = 0 /\ rest = <<>> /\ srcEnd = "more"
    /\ jobChan = <<>> /\ jobClosed = FALSE
    /\ wpc = [w \in CleanWorkers |-> "off"]
    /\ wjob = [w \in CleanWorkers |-> [url |-> <<>>, content |-> <<>>]]
    /\ mu = 0 /\ gwBuf = <<>> /\ sinkErr = FALSE /\ processedCount = 0
    /\ marked = FALSE /\ endKind = "" /\ errRun = 0 /\ boundHit = FALSE
    /\ fedResp = 0 /\ fedWell = TRUE /\ emitted = 0 /\ expected = EmptyBag
    /\ GetNewsIdle

\* Any ledger, any archive of the listing, with or without an output file
\* left by an interrupted run; archives of at most MaxRecords records.
InitParse ==
    /\ \E w \in 1..MaxWorkers : cc = NewCommonCrawl(w, 1)
    /\ alphabet = AllRecords /\ limit = MaxRecords
    /\ ledgerFile \in InitLedgers
    /\ pkey \in Keys
    /\ \E stale \in BOOLEAN :
          /\ outExists = [k \in Keys |-> k = pkey /\ stale]
          /\ outFile = [k \in Keys |-> IF k = pkey /\ stale THEN <<StaleChunk>> ELSE <<>>]
    /\ InitParseCall
    /\ FnIdle

\* A first run (empty ledger, no output yet) with one clean worker over an
\* archive of up to ErrRecords records, each a response with an unparsable
\* Content-Length or a sound one.
InitErr ==
    /\ cc = NewCommonCrawl(1, 1)
    /\ alphabet = ErrAlphabet /\ limit = ErrRecords
    /\ ledgerFile = <<>>
    /\ pkey = <<"a">>
    /\ outExists = [k \in Keys |-> FALSE]
    /\ outFile = [k \in Keys |-> <<>>]
    /\ InitParseCall
    /\ FnIdle

NextParse ==
    \/ Feed
    \/ P_Check
    \/ P_Open
    \/ P_Read
    \/ P_Send
    \/ P_Finish
    \/ P_Wait
    \/ P_Log
    \/ P_Close
    \/ \E w \in CleanWorkers :
          \/ W_Recv(w)
          \/ W_Exit(w)
          \/ W_Lock(w)
          \/ W_Write(w)
          \/ W_Write2(w)
          \/ W_Unlock(w)

SpecParse == InitParse /\ [][NextParse]_vars

SpecErr == InitErr /\ [][NextParse]_vars

(***************************************************************************)
(* GetNews: the scheduler, the download tasks, the parse workers.          *)
(***************************************************************************)
\* The lines of the listing: a directory and the base name of an archive.
PathSet == {[dir |-> "crawl-data/CC-NEWS/", base |-> k] : k \in Keys}

\* Line 121: filepath.Base(path) with ".warc.gz" replaced by ".wrc.gz"; a
\* key stands for the base name without its extension.
SaveFileName(path) == path.base

\* Sequences over S of length at most n.
SeqsUpTo(S, n) == UNION {[1..k -> S] : k \in 0..n}

ParseWorkers == 1..MaxWorkers

\* Positions in the listing.
PathIdx == 1..MaxPaths

NoTask == [warcLocalPath |-> <<>>, savePath |-> <<>>, idx |-> 0]

\* Download tasks that were started and have not finished.
InFlight == {i \in PathIdx : dpc[i] \in {"probe", "fetch", "send"}}

Event(e, i) == hist \cup {<<e, i>>}

\* Mutant of PermitFree: the permit pool has no limit.
PermitFreeMut == TRUE

\* downloadSem <- struct{}{} proceeds while fewer than Predowns permits are
\* taken.
PermitFree == downloadSem < cc.Predowns

\* Mutant of ReleasePermit: the permit is kept by a finished task.
ReleasePermitMut(sem) == sem

\* defer func() { <-downloadSem }()
ReleasePermit(sem) == sem - 1

\* Lines 102-117: the parse workers are started.
G_Start ==
    /\ ~crashed /\ mpc = "start"
    /\ ppc' = [w \in ParseWorkers |-> IF w <= cc.Workers THEN "recv" ELSE "off"]
    /\ mpc' = "loop"
    /\ UNCHANGED <<confVars, fnVars, ledgerVars, outVars, parseVars, paths, mi, downloadSem,
                   taskChan, taskClosed, dpc, tempFile, ptask, closer, ledger0, hist>>

\* Lines 120-131: the ledger lookup for the next path; a completed archive
\* is skipped, a failed lookup makes GetNews return the error.
G_Check ==
    /\ ~crashed /\ mpc = "loop" /\ mi <= Len(paths)
    /\ LET name == SaveFileName(paths[mi])
       IN  \E ioerr \in BOOLEAN :
              IF ioerr
              THEN /\ mpc' = "returned-err"
                   /\ UNCHANGED <<completedSet, mi, hist>>
              ELSE /\ completedSet' = completedSetAfter(completedSet, ledgerFile, name)
                   /\ IF isCompletedWarc(completedSet, ledgerFile, name)
                      THEN /\ mi' = mi + 1
                           /\ hist' = Event("skip", mi)
                           /\ UNCHANGED mpc
                      ELSE /\ mpc' = "acquire"
                           /\ UNCHANGED <<mi, hist>>
    /\ UNCHANGED <<confVars, fnVars, ledgerFile, outVars, parseVars, paths, downloadSem, taskChan,
                   taskClosed, dpc, tempFile, ppc, ptask, closer, ledger0>>

\* Lines 133-136: downloadWg.Add(1), the permit, and the download task is
\* started.
G_Acquire ==
    /\ ~crashed /\ mpc = "acquire"
    /\ PermitFree
    /\ downloadSem' = downloadSem + 1
    /\ dpc' = [dpc EXCEPT ![mi] = "probe"]
    /\ hist' = Event("started", mi)
    /\ mi' = mi + 1
    /\ mpc' = "loop"
    /\ UNCHANGED <<confVars, fnVars, ledgerVars, outVars, parseVars, paths, taskChan, taskClosed,
                   tempFile, ppc, ptask, closer, ledger0>>

\* Lines 150-157: after the last path the closing goroutine is started and
\* GetNews waits for the parse workers.
G_LoopEnd ==
    /\ ~crashed /\ mpc = "loop" /\ mi > Len(paths)
    /\ closer' = "wait"
    /\ mpc' = "wait"
    /\ UNCHANGED <<confVars, fnVars, ledgerVars, outVars, parseVars, paths, mi, downloadSem,
                   taskChan, taskClosed, dpc, tempFile, ppc, ptask, ledger0, hist>>

\* Lines 157-159: parseWg.Wait() and return nil.
G_Return ==
    /\ ~crashed /\ mpc = "wait"
    /\ \A w \in ParseWorkers : ppc[w] \in {"off", "done"}
    /\ mpc' = "returned"
    /\ UNCHANGED <<confVars, fnVars, ledgerVars, outVars, parseVars, paths, mi, downloadSem,
                   taskChan, taskClosed, dpc, tempFile, ppc, ptask, closer, ledger0, hist>>

\* Lines 151-154: downloadWg.Wait() and close(taskChan).
C_Close ==
    /\ ~crashed /\ closer = "wait"
    /\ InFlight = {}
    /\ taskClosed' = TRUE
    /\ closer' = "done"
    /\ UNCHANGED <<confVars, fnVars, ledgerVars, outVars, parseVars, paths, mpc, mi, downloadSem,
                   taskChan, dpc, tempFile, ppc, ptask, ledger0, hist>>

\* Mutant of SizeMatches: any temp file that exists is taken as it is.
SizeMatchesMut(f) == f # "none"

\* Lines 256-257: os.Stat finds the file and fi.Size() == expectedSize;
\* "complete" is a temp file of the probed size, "partial" one of another
\* size.
SizeMatches(f) == f = "complete"

\* downloadedWarc, lines 230-266: a path that does not match reWarc is
\* rejected; then the HEAD probe; then a temp file of the probed size is
\* kept and handed on, any other temp file is deleted.  A failure ends the
\* task (lines 142-145, with the deferred release).
D_Probe(i) ==
    /\ ~crashed /\ dpc[i] = "probe"
    /\ LET name == SaveFileName(paths[i])
       IN  \E res \in {"format", "head", "ok"} :
              IF res # "ok"
              THEN /\ dpc' = [dpc EXCEPT ![i] = "done"]
                   /\ downloadSem' = ReleasePermit(downloadSem)
                   /\ hist' = IF res = "head"
                              THEN hist \cup {<<"probe", i>>, <<"failed", i>>}
                              ELSE Event("failed", i)
                   /\ UNCHANGED tempFile
              ELSE /\ UNCHANGED downloadSem
                   /\ IF SizeMatches(tempFile[name])
                      THEN /\ dpc' = [dpc EXCEPT ![i] = "send"]
                           /\ hist' = hist \cup {<<"probe", i>>, <<"kept", i>>}
                           /\ UNCHANGED tempFile
                      ELSE /\ dpc' = [dpc EXCEPT ![i] = "fetch"]
                           /\ hist' = IF tempFile[name] = "none" THEN Event("probe", i)
                                      ELSE hist \cup {<<"probe", i>>, <<"stale", i>>}
                           /\ tempFile' = [tempFile EXCEPT ![name] = "none"]
    /\ UNCHANGED <<confVars, fnVars, ledgerVars, outVars, parseVars, paths, mpc, mi, taskChan,
                   taskClosed, ppc, ptask, closer, ledger0>>

\* downloadedWarc, lines 268-289: the GET; it fails before the file is
\* created, or while copying (a partial file stays), or succeeds.
D_Fetch(i) ==
    /\ ~crashed /\ dpc[i] = "fetch"
    /\ LET name == SaveFileName(paths[i])
       IN  \E res \in {"status", "copy", "ok"} :
              IF res = "ok"
              THEN /\ tempFile' = [tempFile EXCEPT ![name] = "complete"]
                   /\ dpc' = [dpc EXCEPT ![i] = "send"]
                   /\ hist' = Event("fetch", i)
                   /\ UNCHANGED downloadSem
              ELSE /\ tempFile' = IF res = "copy"
                                  THEN [tempFile EXCEPT ![name] = "partial"]
                                  ELSE tempFile
                   /\ dpc' = [dpc EXCEPT ![i] = "done"]
                   /\ downloadSem' = ReleasePermit(downloadSem)
                   /\ hist' = hist \cup {<<"fetch", i>>, <<"failed", i>>}
    /\ UNCHANGED <<confVars, fnVars, ledgerVars, outVars, parseVars, paths, mpc, mi, taskChan,
                   taskClosed, ppc, ptask, closer, ledger0>>

\* Mutant of QueueHasRoom: the queue takes any number of tasks.
QueueHasRoomMut == TRUE

\* Line 96: taskChan has room for cc.Predowns tasks.
QueueHasRoom == Len(taskChan) < cc.Predowns

\* Line 146: taskChan <- warcTask{...} blocks while the queue is full; then
\* the task ends and its deferred calls release the permit.
D_Send(i) ==
    /\ ~crashed /\ dpc[i] = "send"
    /\ QueueHasRoom
    /\ taskChan' = Append(taskChan, [warcLocalPath |-> SaveFileName(paths[i]),
                                      savePath |-> SaveFileName(paths[i]), idx |-> i])
    /\ dpc' = [dpc EXCEPT ![i] = "done"]
    /\ downloadSem' = ReleasePermit(downloadSem)
    /\ hist' = Event("queued", i)
    /\ UNCHANGED <<confVars, fnVars, ledgerVars, outVars, parseVars, paths, mpc, mi, taskClosed,
                   tempFile, ppc, ptask, closer, ledger0>>

\* Mutant of RemoveTemp: the temp file is left where it is.
RemoveTempMut(files, local) == files

\* Line 114: os.Remove(task.warcLocalPath).
RemoveTemp(files, local) == [files EXCEPT ![local] = "none"]

\* The parse workers run the same code: of those waiting on taskChan the
\* one with the least number receives.
LeastWaiting(w) == ppc[w] = "recv" /\ \A v \in 1..(w - 1) : ppc[v] # "recv"

\* Mutant of Dequeue: a task received stays in the queue.
DequeueMut(ch) == ch

\* A receive takes the first task out of the channel.
Dequeue(ch) == Tail(ch)

\* Line 106: for task := range taskChan.
PW_Recv(w) ==
    /\ ~crashed /\ LeastWaiting(w)
    /\ IF taskChan # <<>>
       THEN /\ ptask' = [ptask EXCEPT ![w] = Head(taskChan)]
            /\ taskChan' = Dequeue(taskChan)
            /\ ppc' = [ppc EXCEPT ![w] = "open"]
            /\ hist' = Event("parse", Head(taskChan).idx)
       ELSE /\ taskClosed
            /\ ppc' = [ppc EXCEPT ![w] = "done"]
            /\ UNCHANGED <<ptask, taskChan, hist>>
    /\ UNCHANGED <<confVars, fnVars, ledgerVars, outVars, parseVars, paths, mpc, mi, downloadSem,
                   taskClosed, dpc, tempFile, closer, ledger0>>

\* parseWarc, lines 293-344: the ledger lookup; for an archive that is not
\* complete the stale output is removed, the temp file opened (which fails
\* when it is gone or is no gzip stream) and the output created.  When
\* parseWarc returns here, line 114 removes the temp file.
PW_Open(w) ==
    /\ ~crashed /\ ppc[w] = "open"
    /\ LET name == ptask[w].savePath
           local == ptask[w].warcLocalPath
           back == /\ tempFile' = RemoveTemp(tempFile, local)
                   /\ ptask' = [ptask EXCEPT ![w] = NoTask]
                   /\ ppc' = [ppc EXCEPT ![w] = "recv"]
       IN  \E res \in {"ioerr", "openerr", "ok"} :
              CASE res = "ioerr" ->
                      /\ back
                      /\ UNCHANGED <<completedSet, outVars, hist>>
                [] res # "ioerr" /\ isCompletedWarc(completedSet, ledgerFile, name) ->
                      /\ completedSet' = completedSetAfter(completedSet, ledgerFile, name)
                      /\ back
                      /\ UNCHANGED <<outVars, hist>>
                [] OTHER ->
                      /\ UNCHANGED completedSet
                      /\ outFile' = RemoveStale(outFile, name)
                      /\ hist' = Event("outchange", ptask[w].idx)
                      /\ IF res = "ok" /\ tempFile[local] # "none"
                         THEN /\ outExists' = [outExists EXCEPT ![name] = TRUE]
                              /\ ppc' = [ppc EXCEPT ![w] = "run"]
                              /\ UNCHANGED <<tempFile, ptask>>
                         ELSE /\ outExists' = [outExists EXCEPT ![name] = FALSE]
                              /\ back
    /\ UNCHANGED <<confVars, fnVars, ledgerFile, parseVars, paths, mpc, mi, downloadSem, taskChan,
                   taskClosed, dpc, closer, ledger0>>

\* What the read loop and the clean workers of one archive leave in the
\* output: SpecParse has the detail.
ParsedChunk == [part |-> 1, url |-> <<"u1">>, content |-> <<>>]

\* parseWarc, lines 346-424 and line 114: the read loop, close(jobChan),
\* wg.Wait(), the ledger append (which may fail), the deferred close of the
\* compressor, and the temp file is removed.  A panic of the reader or of a
\* clean worker ends the process.
PW_Run(w) ==
    /\ ~crashed /\ ppc[w] = "run"
    /\ LET name == ptask[w].savePath
       IN  \E res \in {"panic", "logerr", "ok"} :
              IF res = "panic"
              THEN /\ crashed' = TRUE
                   /\ UNCHANGED <<ledgerFile, outFile, tempFile, ptask, ppc, hist>>
              ELSE /\ ledgerFile' = IF res = "ok" THEN logCompletedWarc(ledgerFile, name)
                                    ELSE ledgerFile
                   /\ hist' = IF res = "ok"
                              THEN hist \cup {<<"logged", ptask[w].idx>>,
                                              <<"outchange", ptask[w].idx>>}
                              ELSE Event("outchange", ptask[w].idx)
                   /\ outFile' = [outFile EXCEPT ![name] = @ \o <<ParsedChunk>>]
                   /\ tempFile' = RemoveTemp(tempFile, ptask[w].warcLocalPath)
                   /\ ptask' = [ptask EXCEPT ![w] = NoTask]
                   /\ ppc' = [ppc EXCEPT ![w] = "recv"]
                   /\ UNCHANGED crashed
    /\ UNCHANGED <<cc, fnVars, completedSet, outExists, parseVars, paths, mpc, mi, downloadSem,
                   taskChan, taskClosed, dpc, closer, ledger0>>

ParseIdle ==
    /\ pkey = <<>> /\ rpc = "idle" /\ pret = "" /\ rjob = NoJob
    /\ alphabet = {} /\ limit = 0
    /\ nfed = 0 /\ rest = <<>> /\ srcEnd = "more"
    /\ jobChan = <<>> /\ jobClosed = FALSE
    /\ wpc = [w \in CleanWorkers |-> "off"]
    /\ wjob = [w \in CleanWorkers |-> [url |-> <<>>, content |-> <<>>]]
    /\ mu = 0 /\ gwBuf = <<>> /\ sinkErr = FALSE /\ processedCount = 0
    /\ marked = FALSE /\ endKind = "" /\ errRun = 0 /\ boundHit = FALSE
    /\ fedResp = 0 /\ fedWell = TRUE /\ emitted = 0 /\ expected = EmptyBag

\* getNewsWarcPaths, line 216: the listing is trimmed as a whole and split
\* at the line ends, so there is at least one line, and the last line ends
\* in no blank.
Listings ==
    {p \in SeqsUpTo(PathSet, MaxPaths) :
        /\ Len(p) >= 1
        /\ TrimRight(p[Len(p)].base) = p[Len(p)].base}

\* The state when GetNews has the listing: any configuration NewCommonCrawl
\* returns, any listing of at most MaxPaths lines, any ledger; the archives
\* named in the ledger have their output files, and temp files of an
\* earlier run may be left.
Init ==
    /\ \E w \in 1..MaxWorkers, p \in 0..MaxPredowns : cc = NewCommonCrawl(w, p)
    /\ crashed = FALSE
    /\ paths \in Listings
    /\ ledgerFile \in InitLedgers
    /\ ledger0 = ledgerFile
    /\ completedSet = {}
    /\ outExists = [k \in Keys |-> \E j \in 1..Len(ledgerFile) : ledgerFile[j] = k]
    /\ outFile = [k \in Keys |-> IF outExists[k] THEN <<StaleChunk>> ELSE <<>>]
    /\ \E t \in {"none", "partial", "complete"} : tempFile = [k \in Keys |-> t]
    /\ mpc = "start" /\ mi = 1 /\ downloadSem = 0
    /\ taskChan = <<>> /\ taskClosed = FALSE
    /\ dpc = [i \in PathIdx |-> "none"]
    /\ ppc = [w \in ParseWorkers |-> "off"]
    /\ ptask = [w \in ParseWorkers |-> NoTask]
    /\ closer = "none"
    /\ hist = {}
    /\ ParseIdle
    /\ FnIdle

Next ==
    \/ G_Start
    \/ G_Check
    \/ G_Acquire
    \/ G_LoopEnd
    \/ G_Return
    \/ C_Close
    \/ \E i \in PathIdx :
          \/ D_Probe(i)
          \/ D_Fetch(i)
          \/ D_Send(i)
    \/ \E w \in ParseWorkers :
          \/ PW_Recv(w)
          \/ PW_Open(w)
          \/ PW_Run(w)

Spec == Init /\ [][Next]_vars

(***************************************************************************)
(* Properties of one parseWarc call.                                       *)
(***************************************************************************)
RECURSIVE PartsBag(_, _)
\* The bag of the entries whose part k is in a sequence of chunks.
PartsBag(chunks, k) ==
    IF chunks = <<>> THEN EmptyBag
    ELSE IF Head(chunks).part = k
         THEN SetToBag({[url |-> Head(chunks).url, content |-> Head(chunks).content]})
                  (+) PartsBag(Tail(chunks), k)
         ELSE PartsBag(Tail(chunks), k)

\* Every entry is in one piece: its first part is directly followed by its
\* second part, except for the entry being written.
Contiguous(chunks) ==
    \A i \in 1..Len(chunks) :
       /\ chunks[i].part = 1 /\ i < Len(chunks) =>
             chunks[i + 1] = [chunks[i] EXCEPT !.part = 2]
       /\ chunks[i].part = 2 =>
             i > 1 /\ chunks[i - 1] = [chunks[i] EXCEPT !.part = 1]

InCritical(w) == wpc[w] \in {"write", "write2", "count"}

ReaderPastLoop == rpc \in {"finish", "wait", "log", "close", "returned"}

\* C1: the archive is appended to the ledger only if the header loop ended
\* at a clean end of stream on a header boundary; a loop ended by a read
\* error (or inside a header block) leaves the archive unmarked.
C1_MarkedOnlyOnCleanEof == marked => endKind = "eof"

\* C2: the ledger append happens only after jobChan was closed and every
\* clean worker has finished: once the archive is marked no job is queued,
\* held or being written.
C2_MarkAfterDrain ==
    marked =>
       /\ jobClosed /\ jobChan = <<>> /\ rjob = NoJob
       /\ \A w \in CleanWorkers : wpc[w] \in {"off", "done"}
       /\ mu = 0

C2_Witness ==
    /\ marked /\ rpc = "close"
    /\ cc.Workers = 2 /\ \A w \in 1..2 : wpc[w] = "done"
    /\ processedCount = 2

\* C4: at the 11th consecutive framing error of response records the read
\* loop is aborted: the reader reads and sends nothing more.
C4_AbortAtEleventhError == boundHit => ReaderPastLoop

\* C5: an archive whose read loop met more than 10 consecutive framing
\* errors is not appended to the ledger.
C5_NotMarkedPastBound == boundHit => ~marked

\* C6: for an archive marked complete with no failed sink write, the
\* entries of the output file are, as a bag, the entries due: exactly one
\* for each job that was read in full and holds a separator.
C6_Completeness ==
    (rpc = "returned" /\ marked /\ ~sinkErr) =>
       /\ PartsBag(outFile[pkey], 1) = expected
       /\ PartsBag(outFile[pkey], 2) = expected

C6_Witness ==
    /\ rpc = "returned" /\ marked /\ ~sinkErr
    /\ cc.Workers = 2
    /\ BagCardinality(expected) = 2
    /\ PartsBag(outFile[pkey], 2) = expected

\* C7: every job on the clean queue was made from a record whose WARC-Type
\* is "response", and once the reader has left its loop over a well-formed
\* stream the jobs emitted are as many as the response records.
C7_TypeFiltering ==
    /\ \A i \in 1..Len(jobChan) : jobChan[i].type = <<"response">>
    /\ rpc = "send" => rjob.type = <<"response">>
    /\ (fedWell /\ ReaderPastLoop /\ endKind # "") => emitted = fedResp

C7_Witness ==
    /\ fedWell /\ rpc = "returned" /\ marked
    /\ nfed = 2 /\ fedResp = 1 /\ emitted = 1

\* C8: at most one clean worker is between mu.Lock() and mu.Unlock(), and
\* the parts of two entries are never interleaved in the output stream.
C8_MutualExclusion ==
    /\ \A w, v \in CleanWorkers : (InCritical(w) /\ InCritical(v)) => w = v
    /\ \A w \in CleanWorkers : InCritical(w) => mu = w
    /\ rpc \notin {"check", "open"} => Contiguous(outFile[pkey] \o gwBuf)

C8_Witness ==
    \E w, v \in CleanWorkers :
       /\ wpc[w] = "write2" /\ wpc[v] = "lock"
       /\ Len(gwBuf) = 1

(***************************************************************************)
(* Properties of GetNews.                                                  *)
(***************************************************************************)
\* The listing positions of the run.
Listed == 1..Len(paths)

Happened(e, i) == <<e, i>> \in hist

\* The number of lines of a ledger file that are the given name.
CountLines(file, name) == Cardinality({j \in 1..Len(file) : file[j] = name})

\* The path's output name was a line of the ledger when the run started.
ListedAtStart(i) == \E j \in 1..Len(ledger0) : ledger0[j] = SaveFileName(paths[i])

\* C3: resume correctness.  For a path whose output name is a line of the
\* ledger file when GetNews starts, the run makes no metadata probe, no
\* download, no parse job and no change to the output file.
C3_ResumeNoWork ==
    \A i \in Listed :
       ListedAtStart(i) =>
          \A e \in {"probe", "fetch", "parse", "outchange"} : ~Happened(e, i)

\* C9: at every moment the number of download tasks that were started and
\* have not finished, those blocked on the send to taskChan included, is
\* at most Predowns.
C9_InFlightBound == Cardinality(InFlight) <= cc.Predowns

\* C9 happens: a task is blocked on the full task queue while every permit
\* is taken.
C9_Witness ==
    /\ cc.Predowns >= 1
    /\ Cardinality(InFlight) = cc.Predowns
    /\ \E i \in Listed : dpc[i] = "send" /\ Len(taskChan) = cc.Predowns

\* C10: a path whose probe or download failed.  Its task has ended and the
\* permits taken are exactly those of the tasks in flight; no task of it is
\* on the queue or with a parse worker; no ledger line was appended for it
\* (the lines of its name are those of the start and those appended for
\* other listing entries of the same name); and the scheduling loop went
\* on: every path before the loop's position was skipped as complete or
\* started, and a loop that ended has passed every path.
C10_FailureIsolated ==
    \A i \in Listed :
       Happened("failed", i) =>
          /\ dpc[i] = "done"
          /\ downloadSem = Cardinality(InFlight)
          /\ ~Happened("queued", i) /\ ~Happened("parse", i)
          /\ \A k \in 1..Len(taskChan) : taskChan[k].idx # i
          /\ \A w \in ParseWorkers : ptask[w].idx # i
          /\ ~Happened("logged", i)
          /\ LET name == SaveFileName(paths[i])
             IN  CountLines(ledgerFile, name) =
                    CountLines(ledger0, name)
                    + Cardinality({j \in Listed : /\ SaveFileName(paths[j]) = name
                                                  /\ Happened("logged", j)})
          /\ \A j \in Listed :
                /\ j < mi => Happened("skip", j) \/ Happened("started", j)
                /\ (j > i /\ mpc \in {"wait", "returned"}) =>
                      Happened("skip", j) \/ Happened("started", j)

\* C10 happens: the first path failed, the second was started after it and
\* reached the parse workers, and GetNews returned with every permit free.
C10_Witness ==
    /\ Len(paths) = 2
    /\ Happened("failed", 1) /\ Happened("fetch", 1)
    /\ Happened("queued", 2) /\ Happened("logged", 2)
    /\ mpc = "returned" /\ downloadSem = 0

\* GetNews has returned, with nil or with the error of a ledger lookup.
GetNewsReturned == mpc \in {"returned", "returned-err"}

\* C11: on every return path taken after the parse workers were started,
\* GetNews returns only after all parse workers have terminated and no
\* download task is still running.
C11_ReturnAfterWorkers ==
    GetNewsReturned =>
       /\ \A w \in ParseWorkers : ppc[w] \in {"off", "done"}
       /\ InFlight = {}

\* The closing goroutine closes taskChan once: it is started once and its
\* close is its last step.
ClosedCount == IF taskClosed THEN 1 ELSE 0

\* C12: the task queue is closed exactly once, and only after every
\* download task that was started has finished; no download task sends
\* after the close.  At most once and not too early: a closed queue means
\* the closing goroutine is through, the scheduling loop has ended and no
\* task is in flight (so none can send).  Exactly once: when GetNews has
\* returned and the download tasks are through, the queue is closed.
C12_ClosedOnceAfterDownloads ==
    /\ taskClosed =>
          /\ closer = "done"
          /\ mpc \in {"wait", "returned"}
          /\ InFlight = {}
          /\ \A i \in Listed : dpc[i] \in {"none", "done"}
    /\ closer = "done" => taskClosed
    /\ (GetNewsReturned /\ InFlight = {}) => ClosedCount = 1

(***************************************************************************)
(* Properties of one parseWarc call, continued.                            *)
(***************************************************************************)
\* C13: when the output sink rejects a write for an archive, the archive's
\* pipeline is aborted: the reader hands on nothing more and the archive
\* is not appended to the ledger.
C13_SinkErrorAborts ==
    sinkErr =>
       /\ ~marked
       /\ rpc # "send"

\* C14: no data-shape error terminates the process: whatever the records
\* of the archive are, parseWarc does not panic.
C14_NoDataShapePanic == ~crashed

(***************************************************************************)
(* The output framing: writeWRC, and the reading loop of ProcessWRC.       *)
(***************************************************************************)
MaxEntries == 2

\* Nothing of the pipeline runs while a function is applied.
PipelineIdle ==
    /\ cc = NewCommonCrawl(1, 1) /\ crashed = FALSE
    /\ ledgerFile = <<>> /\ completedSet = {}
    /\ outExists = [k \in Keys |-> FALSE]
    /\ outFile = [k \in Keys |-> <<>>]
    /\ ParseIdle
    /\ GetNewsIdle

\* Mutant of writeWRC: the length field counts the closing newlines too.
writeWRCMut(url, content) ==
    url \o <<"LF">> \o Itoa(ByteLen(content) + 2) \o <<"LF">> \o content \o <<"LF", "LF">>

\* writeWRC: fmt.Sprintf("%s\n%d\n%s\n\n", url, len(content), content).
writeWRC(url, content) ==
    url \o <<"LF">> \o Itoa(ByteLen(content)) \o <<"LF">> \o content \o <<"LF", "LF">>

\* reader.ReadString('\n'): the bytes up to and with the first newline; at
\* the end of the stream what is left, and an error.
ReadString(s) ==
    IF HasLF(s)
    THEN [line |-> SubSeq(s, 1, FirstLF(s)), rest |-> SubSeq(s, FirstLF(s) + 1, Len(s)),
          err |-> FALSE]
    ELSE [line |-> s, rest |-> <<>>, err |-> TRUE]

\* io.ReadFull of n bytes: the number of tokens that make up n bytes.
TakeBytes(s, n) ==
    LET ks == {k \in 0..Len(s) : ByteLen(SubSeq(s, 1, k)) >= n}
    IN  CHOOSE k \in ks : \A j \in ks : k <= j

\* One iteration of the reading loop of ProcessWRC: "end" when the url line
\* meets the end of the stream, "skip" where the loop continues without an
\* item, "panic" for a negative size, "item" with the pair read.
ReadEntry(s) ==
    LET u    == ReadString(s)
        z    == ReadString(u.rest)
        size == Atoi(TrimSpace(z.line))
        none == [st |-> "end", url |-> <<>>, content |-> <<>>, rest |-> <<>>]
    IN  IF u.err THEN none
        ELSE IF z.err \/ ~size.ok THEN [none EXCEPT !.st = "skip", !.rest = z.rest]
        ELSE IF size.n < 0 THEN [none EXCEPT !.st = "panic"]
        ELSE IF size.n > ByteLen(z.rest) THEN [none EXCEPT !.st = "skip"]
        ELSE LET k == TakeBytes(z.rest, size.n)
             IN  [st      |-> "item",
                  url     |-> TrimSpace(u.line),
                  content |-> SubSeq(z.rest, 1, k),
                  rest    |-> ReadString(ReadString(SubSeq(z.rest, k + 1,
                                                           Len(z.rest))).rest).rest]

\* The urls parseWarc passes on: a trimmed header value, or none.
WrcUrls == {<<"u1">>, <<>>}

\* Cleaned bodies and other payloads: empty, with newlines, shaped like an
\* entry, one of ten bytes, and one with markup.
WrcBodies ==
    {<<>>, <<"H", "i">>, <<"LF">>, <<"a", "LF", "LF", "b">>,
     <<"u1", "LF", "0", "LF", "LF", "LF">>,
     <<"H", "i", " ", "t", "h", "e", "r", "e", "LF", "LF">>,
     <<"<p", ">", "H", "</p>">>}

WrcEntry == [url : WrcUrls, content : WrcBodies]

\* The stream the entries written make.
RECURSIVE WrcConcat(_)
WrcConcat(chunks) ==
    IF chunks = <<>> THEN <<>> ELSE Head(chunks) \o WrcConcat(Tail(chunks))

InitWRC ==
    /\ PipelineIdle
    /\ fpc = "write"
    /\ fin \in SeqsUpTo(WrcEntry, MaxEntries)
    /\ fbuf = <<>>
    /\ fout = <<>>

\* The next entry is written; after the last one the stream is read back.
WRC_Write ==
    /\ fpc = "write"
    /\ fout = <<>>
    /\ LET n == Len(fbuf)
       IN  IF n < Len(fin)
           THEN /\ fbuf' = Append(fbuf, writeWRC(fin[n + 1].url, fin[n + 1].content))
                /\ UNCHANGED <<fpc, fout>>
           ELSE /\ fpc' = "read"
                /\ fout' = [items |-> <<>>, stream |-> WrcConcat(fbuf)]
                /\ UNCHANGED fbuf
    /\ UNCHANGED <<confVars, ledgerVars, outVars, parseVars, getNewsVars, fin>>

\* One iteration of the reading loop.
WRC_Read ==
    /\ fpc = "read"
    /\ LET e == ReadEntry(fout.stream)
       IN  CASE e.st = "item" ->
                   /\ fout' = [items  |-> Append(fout.items,
                                                  [url |-> e.url, content |-> e.content]),
                               stream |-> e.rest]
                   /\ UNCHANGED fpc
             [] e.st = "skip" ->
                   /\ fout' = [fout EXCEPT !.stream = e.rest]
                   /\ UNCHANGED fpc
             [] OTHER ->
                   /\ fpc' = IF e.st = "end" THEN "done" ELSE "panic"
                   /\ UNCHANGED fout
    /\ UNCHANGED <<confVars, ledgerVars, outVars, parseVars, getNewsVars, fin, fbuf>>

NextWRC ==
    \/ WRC_Write
    \/ WRC_Read

SpecWRC == InitWRC /\ [][NextWRC]_vars

\* C15: round trip of the output framing.  Entries written with writeWRC
\* and read back with the framing of ProcessWRC are the same pairs, and
\* every length field is the byte length of its body: while reading, the
\* items read are a prefix of the entries written, and at the end all of
\* them were read.
C15_RoundTrip ==
    /\ fpc \in {"read", "done"} =>
          /\ Len(fout.items) <= Len(fin)
          /\ \A i \in 1..Len(fout.items) : fout.items[i] = fin[i]
    /\ fpc = "done" => fout.items = fin
    /\ fpc # "panic"
    /\ \A i \in 1..Len(fbuf) :
          Atoi(TrimSpace(ReadString(ReadString(fbuf[i]).rest).line)) =
             [ok |-> TRUE, n |-> ByteLen(fin[i].content)]

\* C15 happens: two entries, an empty body and a body with newlines, were
\* written and read back.
C15_Witness ==
    /\ fpc = "done"
    /\ Len(fin) = 2 /\ fout.items = fin
    /\ fin[1].content = <<>>
    /\ fin[2].content = <<"a", "LF", "LF", "b">>

(***************************************************************************)
(* One job through a clean worker: the body of a response, CleanHTML,      *)
(* writeWRC; and CleanHTML applied to its own output.                      *)
(***************************************************************************)
MaxAttrs == 3

\* The attributes of the generated elements; the parser keeps one
\* attribute per key.
PlainAttrs == {"href", "title", "onclick", "data-x", "itemprop"}

AttrSeqs ==
    {s \in SeqsUpTo(PlainAttrs, MaxAttrs) :
        \A i, j \in 1..Len(s) : i # j => s[i] # s[j]}

\* <a ...>Hi</a> with the given attributes.
AnchorDoc(attrs) == <<"<a">> \o attrs \o <<">", "H", "i", "</a>">>

\* Documents with nested elements, classes and a comment; every text byte
\* occurs once in its document.
StructDocs ==
    {<<"H", "i">>,
     <<"<html", ">", "<body", ">", "H", "i", "</body>", "</html>">>,
     <<"<div", "class=ad", ">", "<p", ">", "H", "</p>", "</div>", "<p", ">", "t", "</p>">>,
     <<"<nav", ">", "<div", "class=Sidebar", "onclick", ">", "x", "</div>", "</nav>", "y">>,
     <<"<html", ">", "<body", "class=ad", ">", "<p", "class=x top-ad", ">", "a", "</p>",
       "b", " ", " ", "c", "</body>", "</html>">>,
     <<"<div", ">", "<nav", ">", "<a", "href", "data-x", ">", "l", "</a>", "</nav>", "LF",
       "<p", "class=lead", ">", "i", "</p>", "</div>">>,
     <<"<!--", "<div", ">", "-->", "H", "<p", "class=Sidebar", "title", ">", "s", "</p>">>}

HtmlDocs == StructDocs \cup {AnchorDoc(attrs) : attrs \in AttrSeqs}

\* Configurations: names in either case, keywords of the three forms.
SelectorSets ==
    [Tags          : {{}, {<<"d", "i", "v">>}, {<<"N", "a", "v">>}},
     Classes       : {{}, {<<"L", "e", "a", "d">>}},
     ClassKeywords : {<<>>, << <<"^", "t", "o", "p">> >>, << <<"a", "d", "$">> >>,
                      << <<"a", "d">> >>, << <<"S", "i", "d", "e">> >>},
     Attributes    : {{}, {<<"H", "r", "e", "f">>}}]

\* The HTTP response of a record: a header stub, the separator, the page.
HttpBody(html) == <<"h">> \o CRLFCRLF \o html

InitClean ==
    /\ \E sel \in SelectorSets : cc = [NewCommonCrawl(1, 1) EXCEPT !.RemoveSelectors = sel]
    /\ crashed = FALSE
    /\ ledgerFile = <<>> /\ completedSet = {}
    /\ outExists = [k \in Keys |-> FALSE]
    /\ outFile = [k \in Keys |-> <<>>]
    /\ ParseIdle
    /\ GetNewsIdle
    /\ fpc = "job"
    /\ \E html \in HtmlDocs :
          fin = [URL |-> <<"http://x.test/a">>, Content |-> HttpBody(html)]
    /\ fbuf = <<>>
    /\ fout = <<>>

\* Lines 357-369 for one job: the separator, the slice, CleanHTML.
CW_Clean ==
    /\ fpc = "job"
    /\ HeaderEnd(fin.Content) # -1 /\ ~SlicePanics(fin.Content)
    /\ fout' = [cleaned |-> CleanHTML(cc, HtmlContent(fin.Content)), again |-> <<>>]
    /\ fpc' = "cleaned"
    /\ UNCHANGED <<confVars, ledgerVars, outVars, parseVars, getNewsVars, fin, fbuf>>

\* Line 372: writeWRC(gw, job.URL, cleaned).
CW_Write ==
    /\ fpc = "cleaned"
    /\ fbuf' = Append(fbuf, writeWRC(fin.URL, fout.cleaned))
    /\ fpc' = "written"
    /\ UNCHANGED <<confVars, ledgerVars, outVars, parseVars, getNewsVars, fin, fout>>

\* CleanHTML, with the same configuration, on its own output.
CW_Reclean ==
    /\ fpc = "written"
    /\ fout' = [fout EXCEPT !.again = CleanHTML(cc, fout.cleaned)]
    /\ fpc' = "recleaned"
    /\ UNCHANGED <<confVars, ledgerVars, outVars, parseVars, getNewsVars, fin, fbuf>>

NextClean ==
    \/ CW_Clean
    \/ CW_Write
    \/ CW_Reclean

SpecClean == InitClean /\ [][NextClean]_vars

\* The document the rules walk for the job: the parsed body of the response.
ParsedJob == ParseDoc(RemoveComments(HtmlContent(fin.Content)))

\* The attribute tokens of the element that opens at position i of s.
AttrsAt(s, i) == SubSeq(s, i + 1, i + FirstGT(SubSeq(s, i, Len(s))) - 2)

\* The positions of s the element opening at i takes, close tag included.
SubtreeAt(s, i) == i..(i + MatchClose(SubSeq(s, i, Len(s))) - 1)

\* A text byte that is not white space.
IsText(tok) ==
    /\ tok \notin OpenTokens \cup CloseTokens \cup AttrTokens \cup {">", "<!--", "-->", ""}
    /\ ~IsSpace(tok)

\* The text bytes of s inside the elements whose open tag is at a position
\* of the set roots.
TextUnder(s, roots) ==
    {s[p] : p \in {q \in 1..Len(s) : IsText(s[q]) /\ \E i \in roots : q \in SubtreeAt(s, i)}}

\* C16: after CleanHTML no element of the output carries an attribute whose
\* name starts, in any case, with data-, area-, on or item, or is a
\* configured attribute, whatever the number and order of its attributes.
C16_NoStrippedAttrLeft ==
    fpc # "job" =>
       \A i \in 1..Len(fout.cleaned) :
          fout.cleaned[i] \in AttrTokens =>
             LET keyLower == ToLower(AttrKey(fout.cleaned[i]))
             IN  /\ ~HasPrefix(keyLower, <<"d", "a", "t", "a", "-">>)
                 /\ ~HasPrefix(keyLower, <<"a", "r", "e", "a", "-">>)
                 /\ ~HasPrefix(keyLower, <<"o", "n">>)
                 /\ ~HasPrefix(keyLower, <<"i", "t", "e", "m">>)
                 /\ \A a \in cc.RemoveSelectors.Attributes : keyLower # ToLower(a)

\* A class token, as written in the document, matches the keyword pattern:
\* "^x" by prefix, "x$" by suffix, anything else as a substring.
ClassMatches(className, keyword) ==
    IF HasPrefix(keyword, <<"^">>) THEN HasPrefix(className, Tail(keyword))
    ELSE IF HasSuffix(keyword, <<"$">>)
         THEN HasSuffix(className, SubSeq(keyword, 1, Len(keyword) - 1))
    ELSE Contains(className, keyword)

\* The open tags of s, body apart, with a class token matching a configured
\* keyword.
KeywordRoots(s) ==
    {i \in 1..Len(s) :
        /\ s[i] \in OpenTokens \ {"<body"}
        /\ \E a \in 1..Len(AttrsAt(s, i)) :
              \E f \in 1..Len(ClassFields(AttrsAt(s, i)[a])) :
                 \E k \in 1..Len(cc.RemoveSelectors.ClassKeywords) :
                    ClassMatches(ClassFields(AttrsAt(s, i)[a])[f],
                                 cc.RemoveSelectors.ClassKeywords[k])}

\* C17: for every configured keyword pattern, every element other than body
\* with a class token matching it is absent from the output of CleanHTML,
\* with its subtree; the body element is kept even when its class matches.
C17_KeywordElementsRemoved ==
    fpc # "job" =>
       /\ KeywordRoots(fout.cleaned) = {}
       /\ \A t \in TextUnder(ParsedJob, KeywordRoots(ParsedJob)) :
             \A i \in 1..Len(fout.cleaned) : fout.cleaned[i] # t
       /\ \E i \in 1..Len(fout.cleaned) : fout.cleaned[i] = "<body"

\* The open tags of s whose tag name is in the tag-removal set.
TagRoots(s) ==
    {i \in 1..Len(s) :
        /\ s[i] \in OpenTokens
        /\ \E tag \in cc.RemoveSelectors.Tags : ToLower(tag) = NodeName(s[i])}

\* C18: the output of CleanHTML has no element whose tag name is in the
\* tag-removal set and nothing of the subtree of such an element, also when
\* a descendant matches a tag, class or attribute rule itself.
C18_TagSubtreesRemoved ==
    fpc # "job" =>
       /\ TagRoots(fout.cleaned) = {}
       /\ \A t \in TextUnder(ParsedJob, TagRoots(ParsedJob)) :
             \A i \in 1..Len(fout.cleaned) : fout.cleaned[i] # t

\* C18 happens: <nav><div class=Sidebar onclick>x</div></nav>y was cleaned
\* with nav (written Nav) in the tag-removal set; y is left, x is not.
C18_Witness ==
    /\ fpc = "cleaned"
    /\ cc.RemoveSelectors.Tags = {<<"N", "a", "v">>}
    /\ TextUnder(ParsedJob, TagRoots(ParsedJob)) = {"x"}
    /\ \E i \in 1..Len(ParsedJob) :
          i \in TagRoots(ParsedJob) /\ \E q \in SubtreeAt(ParsedJob, i) :
             q # i /\ ParsedJob[q] = "<div" /\ AttrsAt(ParsedJob, q) = <<"class=Sidebar", "onclick">>
    /\ \E i \in 1..Len(fout.cleaned) : fout.cleaned[i] = "y"

\* C19: CleanHTML applied, with the same configuration, to its own output
\* gives the same bytes.
C19_Idempotent == fpc = "recleaned" => fout.again = fout.cleaned

\* The page of the scenario and the document the parser makes of it.
HiPage == <<"<html", ">", "<body", ">", "H", "i", "</body>", "</html>">>
HiDocument ==
    <<"<html", ">", "<head", ">", "</head>", "<body", ">", "H", "i", "</body>", "</html>">>

\* C20 as stated: the record of http://x.test/a with the body
\* <html><body>Hi</body></html> gives the cleaned body Hi and one entry
\* with length field 2.
C20_CleanedIsText ==
    fin.Content = HttpBody(HiPage) =>
       /\ fpc # "job" => fout.cleaned = <<"H", "i">>
       /\ fpc \in {"written", "recleaned"} =>
             fbuf = << <<"http://x.test/a", "LF", "2", "LF", "H", "i", "LF", "LF">> >>

\* C20, amended: the record of http://x.test/a with the body
\* <html><body>Hi</body></html>, under a configuration that removes none of
\* html, head and body, gives the cleaned body
\* <html><head></head><body>Hi</body></html> and exactly one entry, with
\* length field 41.
C20_CleanedIsDocument ==
    fin.Content = HttpBody(HiPage) =>
       /\ fpc = "job" => fbuf = <<>>
       /\ fpc # "job" => fout.cleaned = HiDocument
       /\ fpc \in {"written", "recleaned"} =>
             fbuf = << <<"http://x.test/a", "LF", "4", "1", "LF">> \o HiDocument
                          \o <<"LF", "LF">> >>

\* C20 happens: the entry of the scenario was written.
C20_Witness ==
    /\ fpc = "written"
    /\ fin.URL = <<"http://x.test/a">>
    /\ fin.Content = <<"h", "CR", "LF", "CR", "LF">> \o HiPage
    /\ Len(fbuf) = 1

\* C21: when a parse worker is through with a task, parseWarc having
\* succeeded, failed or skipped the archive, the local temp file of the
\* task does not exist.
C21_TempFileRemoved ==
    [][\A w \in ParseWorkers :
          (ppc[w] \in {"open", "run"} /\ ppc'[w] = "recv") =>
             tempFile'[ptask[w].warcLocalPath] = "none"]_vars

\* C21 happens: a task whose archive was downloaded in this run was parsed
\* and marked, its worker waits for the next task, the temp file is gone.
C21_Witness ==
    \E i \in PathIdx :
       /\ {<<"fetch", i>>, <<"parse", i>>, <<"logged", i>>} \subseteq hist
       /\ \A w \in ParseWorkers : ppc[w] \in {"off", "recv", "done"}
       /\ tempFile[SaveFileName(paths[i])] = "none"

\* C22: downloadedWarc issues the download if and only if no temp file of
\* the probed size exists; a file of that size is handed on as it is and
\* nothing is downloaded, a file of another size is deleted before the
\* download starts.
C22_DownloadIffNoSizedFile ==
    [][\A i \in PathIdx :
          (dpc[i] = "probe" /\ dpc'[i] \in {"fetch", "send"}) =>
             LET f == tempFile[SaveFileName(paths[i])]
             IN  /\ (dpc'[i] = "fetch") <=> (f # "complete")
                 /\ f = "complete" => tempFile' = tempFile
                 /\ f = "partial" => tempFile'[SaveFileName(paths[i])] = "none"]_vars

\* C22 happens: a probe found a temp file of another size; the file is
\* gone and the download is about to start.
C22_Witness ==
    \E i \in PathIdx :
       /\ <<"stale", i>> \in hist
       /\ dpc[i] = "fetch"
       /\ tempFile[SaveFileName(paths[i])] = "none"

\* The name is a line of the ledger file.
IsLedgerLine(file, warcFileName) == \E j \in 1..Len(file) : file[j] = warcFileName

\* C23: a lookup with isCompletedWarc answers true exactly for the names
\* that are lines of the ledger file at that time; the in-memory set holds
\* no name that is not in the file; a name marked complete earlier in the
\* run is reported complete by every later lookup.
C23_LedgerMirror ==
    /\ \A k \in Keys :
          isCompletedWarc(completedSet, ledgerFile, k) <=> IsLedgerLine(ledgerFile, k)
    /\ \A k \in completedSet : IsLedgerLine(ledgerFile, k)
    /\ \A i \in PathIdx :
          <<"logged", i>> \in hist =>
             isCompletedWarc(completedSet, ledgerFile, SaveFileName(paths[i]))

\* The parse worker is inside parseWarc with the output file of its task
\* open for writing (lines 329-424).
HasOutputOpen(w) == ppc[w] = "run"

\* C24: at any time at most one parseWarc invocation has a given output
\* file open for writing, whatever the listing, also when it names a path
\* more than once.
C24_OneWriterPerOutput ==
    \A v, w \in ParseWorkers :
       (v # w /\ HasOutputOpen(v) /\ HasOutputOpen(w)) => ptask[v].savePath # ptask[w].savePath

\* The bytes left start at a record boundary: at the end of the stream, at
\* the first header line of a record, or at the blank lines that close the
\* record before.
RECURSIVE AtBoundary(_)
AtBoundary(s) ==
    IF s = <<>> THEN TRUE
    ELSE IF Len(s) >= 2 /\ s[1] = "CR" /\ s[2] = "LF" THEN AtBoundary(SubSeq(s, 3, Len(s)))
    ELSE s[1] = "WARC-Type"

\* The jobs the response records of a well-formed archive stand for.
TrueJobs ==
    {[URL |-> <<"u1">>, Content |-> CRLFDoc, type |-> <<"response">>],
     [URL |-> <<"u2">>, Content |-> LFDoc, type |-> <<"response">>],
     [URL |-> <<"u2">>, Content |-> NoSepDoc, type |-> <<"response">>]}

\* C25: for a record that is no response the reader discards exactly
\* Content-Length bytes and goes on at the next header block: in an archive
\* of well-formed records the bytes still to be read always start at a
\* record boundary, no job is made of skipped bytes, and every job is the
\* url and body of a response record.
C25_SkipKeepsFraming ==
    (fedWell /\ rpc \in {"read", "send"}) =>
       /\ AtBoundary(rest)
       /\ rpc = "send" => rjob \in TrueJobs
       /\ emitted + (IF rpc = "send" THEN 1 ELSE 0) <= fedResp

\* C25 happens: a record that is no response was skipped, and the response
\* record after it was read at its boundary.
C25_Witness ==
    /\ rpc = "send" /\ fedWell
    /\ nfed = 2 /\ fedResp = 1 /\ emitted = 0
    /\ rjob = [URL |-> <<"u1">>, Content |-> CRLFDoc, type |-> <<"response">>]
    /\ rest = <<>>

\* C26: a response record whose Content-Length is missing or no number, or
\* whose body is shorter than Content-Length, is discarded by the reader:
\* no turn of the read loop makes a job of such a record.
C26_BadLengthDiscarded ==
    [][(rpc = "read" /\ rpc' = "send") =>
          LET h == ReadHeaderBlock(rest, <<>>)
          IN  ~FramingError(ParseHeader(h.lines), Len(h.rest))]_vars

\* The bytes of a record body that follow its header/body separator:
\* "\r\n\r\n" when it is there, else "\n\n".
AfterSeparator(content) ==
    IF Index(content, CRLFCRLF) # -1
    THEN SliceFrom(content, Index(content, CRLFCRLF) + Len(CRLFCRLF))
    ELSE SliceFrom(content, Index(content, LFLF) + Len(LFLF))

\* C27: the HTML a clean worker hands to CleanHTML is exactly the bytes
\* after the separator of the record body, "\r\n\r\n" first and "\n\n"
\* only when the first is absent; no byte after the separator is dropped,
\* for either separator.
C27_HtmlIsBytesAfterSeparator ==
    [][\A w \in CleanWorkers :
          (LeastIdle(w) /\ jobChan # <<>> /\ jobChan' = Tail(jobChan)
             /\ HeaderEnd(Head(jobChan).Content) # -1) =>
                /\ ~crashed'
                /\ wpc'[w] = "lock"
                /\ wjob'[w].content =
                      CleanHTML(cc, AfterSeparator(Head(jobChan).Content))]_vars

\* C28: a response record whose body holds neither separator is dropped by
\* the clean worker that takes it: nothing is written for it, nothing
\* fails, the worker is ready for the next job; and an archive marked
\* complete with no failed write holds one whole entry for every other job,
\* and none for the dropped ones.
C28_NoSeparatorDropped ==
    /\ [][\A w \in CleanWorkers :
             (LeastIdle(w) /\ jobChan # <<>> /\ jobChan' = Tail(jobChan)
                /\ Index(Head(jobChan).Content, CRLFCRLF) = -1
                /\ Index(Head(jobChan).Content, LFLF) = -1) =>
                   /\ ~crashed' /\ wpc'[w] = "idle"
                   /\ UNCHANGED <<wjob, gwBuf, outFile, sinkErr, rpc, jobClosed>>]_vars
    /\ [](rpc = "returned" /\ marked /\ ~sinkErr =>
             Len(outFile[pkey]) = 2 * BagCardinality(expected))

\* C28 happens: an archive of two well-formed response records, one of
\* them without separator, was read, one entry was written and the archive
\* was marked complete.
C28_Witness ==
    /\ rpc = "returned" /\ marked /\ ~sinkErr /\ fedWell
    /\ nfed = 2 /\ emitted = 2
    /\ BagCardinality(expected) = 1
    /\ Len(outFile[pkey]) = 2
    /\ IsLedgerLine(ledgerFile, pkey)

\* Download tasks that hold a downloaded archive and wait to queue it.
WaitingToSend == {i \in PathIdx : dpc[i] = "send"}

\* C29: the downloaded archives no parse worker has taken yet are at most
\* the capacity of the task queue plus the permits, 2 x Predowns: the queue
\* holds at most Predowns tasks, and a task that waits to queue its archive
\* still holds its permit.
C29_Backpressure ==
    /\ Len(taskChan) <= cc.Predowns
    /\ Cardinality(WaitingToSend) <= downloadSem
    /\ downloadSem <= cc.Predowns
    /\ Len(taskChan) + Cardinality(WaitingToSend) <= 2 * cc.Predowns

\* C29 happens: the queue is full and a task with a downloaded archive
\* waits for room, holding the only permit; the scheduler waits for it.
C29_Witness ==
    /\ cc.Predowns = 1 /\ Len(taskChan) = 1
    /\ WaitingToSend # {}
    /\ downloadSem = 1
    /\ Len(taskChan) + Cardinality(WaitingToSend) = 2 * cc.Predowns

\* C30: a call of parseWarc for an archive whose name is in the ledger when
\* it is called returns without deleting, truncating or writing the output
\* file of the archive and without appending to the ledger.
C30_CompletedUntouched ==
    [][(IsLedgerLine(ledgerFile, pkey) /\ ~marked) =>
          UNCHANGED <<outFile, outExists, ledgerFile>>]_vars

(***************************************************************************)
(* GetNews with its scheduling: every goroutine that can take a step takes *)
(* one, every network request and every parse finishes; a goroutine        *)
(* blocked on a channel goes on when the channel lets it (the runtime      *)
(* serves blocked senders in turn).                                        *)
(***************************************************************************)
Fairness ==
    /\ WF_vars(G_Start) /\ WF_vars(G_Check) /\ SF_vars(G_Acquire)
    /\ WF_vars(G_LoopEnd) /\ WF_vars(G_Return) /\ WF_vars(C_Close)
    /\ \A i \in PathIdx :
          WF_vars(D_Probe(i)) /\ WF_vars(D_Fetch(i)) /\ SF_vars(D_Send(i))
    /\ \A w \in ParseWorkers :
          SF_vars(PW_Recv(w)) /\ WF_vars(PW_Open(w)) /\ WF_vars(PW_Run(w))

SpecLive == Init /\ [][Next]_vars /\ Fairness

\* The listing names an archive that is not in the ledger.
HasWork ==
    \E i \in 1..Len(paths) : ~isCompletedWarc({}, ledgerFile, SaveFileName(paths[i]))

\* C31: for every configuration NewCommonCrawl returns and every listing
\* with an archive that is not in the ledger, GetNews returns in the end
\* (unless a parse panics): the scheduler does not wait for a permit for
\* ever.
C31_GetNewsReturns == HasWork => <>(GetNewsReturned \/ crashed)

\* C32: when the name of an archive is appended to the ledger its output is
\* final: the compressor was closed and every entry has reached the output
\* file.
C32_FinalizedBeforeMarked ==
    marked => (rpc = "returned" /\ gwBuf = <<>>)

\* C33: whatever the runs before and whatever the listing, the ledger file
\* holds the name of an archive at most once.
C33_LedgerLinesUnique ==
    \A k \in Keys : CountLines(ledgerFile, k) <= 1

(***************************************************************************)
(* parseWarc after an interrupted run: the archive is not in the ledger    *)
(* and its output file, left by the earlier run, is there.                 *)
(***************************************************************************)
InitStale ==
    /\ \E w \in 1..MaxWorkers : cc = NewCommonCrawl(w, 1)
    /\ alphabet = WellFormedRecords /\ limit = MaxRecords
    /\ ledgerFile = <<>>
    /\ pkey \in Keys
    /\ outExists = [k \in Keys |-> k = pkey]
    /\ outFile = [k \in Keys |-> IF k = pkey THEN <<StaleChunk>> ELSE <<>>]
    /\ InitParseCall
    /\ FnIdle

SpecStale == InitStale /\ [][NextParse]_vars

\* C34: when an archive that is not in the ledger is parsed, the output
\* file an interrupted run left is deleted before an entry is written; the
\* output of an archive marked complete holds only entries of the run that
\* completed it, none of the earlier run.
C34_StaleOutputReplaced ==
    /\ (gwBuf # <<>> \/ \E w \in CleanWorkers : wpc[w] \in {"lock", "write", "write2", "count"})
          => \A i \in 1..Len(outFile[pkey]) : outFile[pkey][i] # StaleChunk
    /\ marked =>
          \A i \in 1..Len(outFile[pkey]) :
             /\ outFile[pkey][i].part \in {1, 2}
             /\ BagIn([url |-> outFile[pkey][i].url, content |-> outFile[pkey][i].content],
                      expected)

\* C34 happens: the archive whose output an earlier run had left was parsed
\* again and marked; its output holds the one entry of this run.
C34_Witness ==
    /\ rpc = "returned" /\ marked /\ ~sinkErr
    /\ BagCardinality(expected) = 1
    /\ Len(outFile[pkey]) = 2
    /\ \A i \in 1..2 : outFile[pkey][i].part = i

\* How often the task of path i is in the queue, and the parse workers that
\* hold it.
TimesQueued(i) == Cardinality({j \in 1..Len(taskChan) : taskChan[j].idx = i})
Holders(i) == {w \in ParseWorkers : ptask[w].idx = i}

\* C35: every task a download task put on the queue is taken by exactly
\* one parse worker: it is in the queue once or was taken once, never
\* both, and never held by two workers; and when GetNews returns on its
\* normal path every queued task was taken and parsed to the end.
C35_HandOffExactlyOnce ==
    /\ \A i \in PathIdx :
          /\ <<"queued", i>> \in hist =>
                TimesQueued(i) + (IF <<"parse", i>> \in hist THEN 1 ELSE 0) = 1
          /\ <<"queued", i>> \notin hist =>
                TimesQueued(i) = 0 /\ <<"parse", i>> \notin hist
          /\ Cardinality(Holders(i)) <= 1
          /\ Holders(i) # {} => <<"parse", i>> \in hist
    /\ mpc = "returned" =>
          /\ taskChan = <<>>
          /\ \A w \in ParseWorkers : ppc[w] \in {"off", "done"} /\ ptask[w] = NoTask
          /\ \A i \in PathIdx : <<"queued", i>> \in hist => <<"parse", i>> \in hist

\* C35 happens: two archives were downloaded, queued and parsed, and
\* GetNews has returned.
C35_Witness ==
    /\ mpc = "returned"
    /\ {<<"queued", 1>>, <<"queued", 2>>, <<"parse", 1>>, <<"parse", 2>>} \subseteq hist
    /\ taskChan = <<>>

=============================================================================
